---------------------------- MODULE Spec2Model ----------------------------
(***************************************************************************)
(* The TrustCircles lending contract (src/unnamed/part_002) as a state     *)
(* machine.  One action per external function; a call whose require()      *)
(* fails, or whose ether transfer is refused by the recipient, reverts and *)
(* leaves every variable unchanged.  Every external transfer is the last   *)
(* state-affecting statement of its function, so the state the recipient   *)
(* sees is the state after the action.                                     *)
(***************************************************************************)
EXTENDS Integers, Sequences, FiniteSets, TLC

(* ------------------------------ bounds -------------------------------- *)

\* Addresses 1..MaxAddr are the callers of the lending runs; the addresses up
\* to MaxCrowd exist as well and call in the run that fills a circle.
\* NullAddr is address(0).
MaxAddr == 4
MaxCrowd == 12
MaxCircles == 2
\* Loans a run may create: MaxLoans in the run where two borrowers climb to the
\* highest tier, DeepLoans in the runs that follow one borrower through repeated
\* loans, FewLoans in the runs where every caller and setting varies.
MaxLoans == 6
DeepLoans == 4
FewLoans == 2
\* Cap on the contract balance for deposits made by the admin.
MaxBalance == 130
\* block.timestamp when the contract is deployed.
StartTime == 1000
\* Solidity's ether unit is 10^18 wei; the model keeps wei arithmetic and
\* uses a smaller unit so that amounts stay inside TLC's integers.
ether == 10

NullAddr == 0
Addrs == 1 .. MaxAddr
Accounts == 1 .. MaxCrowd
CircleIds == 1 .. MaxCircles
LoanIds == 1 .. MaxLoans

(* ------------------------- program constants -------------------------- *)

minutes == 60
days == 86400

Deployer == 1

MIN_CIRCLE_MEMBERS == 3
STARTING_SCORE == 50
MAX_SCORE == 100
MIN_STAKE == ether \div 2
LOAN_DURATION == 7 * days
INDIVIDUAL_WEIGHT == 60
CIRCLE_WEIGHT == 40
ON_TIME_BONUS == 10
EARLY_BONUS == 15
LATE_PENALTY == 5
DEFAULT_PENALTY == 50
CIRCLE_DEFAULT_PENALTY == 20
MAX_CIRCLE_SIZE == 10
GRACE_SHORT == 3 * days
GRACE_LONG == 7 * days
DEFAULT_GRACE == 14 * days
INITIAL_DEMO_DURATION == 7 * minutes

(* ------------------------------- state -------------------------------- *)

VARIABLES
    admin,              \* address public admin
    circleCount,        \* uint256 public circleCount
    loanCount,          \* uint256 public loanCount
    isDemoMode,         \* bool public isDemoMode
    demoLoanDuration,   \* uint256 public demoLoanDuration
    circles,            \* mapping(uint256 => Circle)
    members,            \* mapping(address => MemberData)
    loans,              \* mapping(uint256 => Loan)
    userLoans,          \* mapping(address => uint256[])
    circleExists,       \* mapping(uint256 => bool)
    balance,            \* address(this).balance
    now,                \* block.timestamp
    paidOut,            \* history: per loan, how many times the principal was sent to the borrower
    penalized,          \* history: loans on which penalizeDefault has succeeded
    breakdown,          \* the advisory service: the last call of calculateTrustScoreBreakdown
    selfie              \* the advisory service: the call of verifySelfieWithGemini in progress

vars == << admin, circleCount, loanCount, isDemoMode, demoLoanDuration, circles,
           members, loans, userLoans, circleExists, balance, now, paidOut, penalized >>

\* The contract's storage and balance (everything but the clock and the history).
ledger == << admin, circleCount, loanCount, isDemoMode, demoLoanDuration, circles,
             members, loans, userLoans, circleExists, balance >>

\* The advisory service beside the contract; no function of the contract reads
\* or writes it.
offchain == << breakdown, selfie >>

\* The advisory service before any call.
NoCall == [pc |-> "idle"]

\* Default (all-zero) values of the storage mappings.
EmptyCircle ==
    [id |-> 0, name |-> "", members |-> << >>, totalStake |-> 0, createdAt |-> 0,
     isActive |-> FALSE]

EmptyMember ==
    [circleId |-> 0, individualScore |-> 0, trustBond |-> 0, totalBorrowed |-> 0,
     totalRepaid |-> 0, loansCompleted |-> 0, isActive |-> FALSE, hasActiveLoan |-> FALSE]

EmptyLoan ==
    [id |-> 0, borrower |-> NullAddr, amount |-> 0, interestAmount |-> 0,
     totalRepayment |-> 0, requestTime |-> 0, approvalTime |-> 0, disbursementTime |-> 0,
     dueDate |-> 0, repaymentTime |-> 0, approved |-> FALSE, disbursed |-> FALSE,
     repaid |-> FALSE, purpose |-> ""]

\* The contract after its constructor.
InitLedger ==
    /\ admin = Deployer
    /\ circleCount = 0
    /\ loanCount = 0
    /\ isDemoMode = FALSE
    /\ demoLoanDuration = INITIAL_DEMO_DURATION
    /\ circles = [c \in CircleIds |-> EmptyCircle]
    /\ members = [a \in Accounts |-> EmptyMember]
    /\ loans = [l \in LoanIds |-> EmptyLoan]
    /\ userLoans = [a \in Accounts |-> << >>]
    /\ circleExists = [c \in CircleIds |-> FALSE]
    /\ balance = 0
    /\ now = StartTime
    /\ paidOut = [l \in LoanIds |-> 0]
    /\ penalized = {}

\* The deployed contract and the advisory service at rest.
Init ==
    /\ InitLedger
    /\ breakdown = NoCall
    /\ selfie = NoCall

\* A failed require() or a refused transfer: the transaction reverts.
Revert == UNCHANGED vars

(* ------------------------- score calculations ------------------------- *)

\* The sum of the members' scores, a stored score of 0 read as STARTING_SCORE.
\* Mutant of SumScores: a stored score of 0 is summed as 0.
RECURSIVE SumScoresStored(_, _, _)
SumScoresStored(ms, list, i) ==
    IF i > Len(list) THEN 0
    ELSE ms[list[i]].individualScore + SumScoresStored(ms, list, i + 1)

RECURSIVE SumScores(_, _, _)
SumScores(ms, list, i) ==
    IF i > Len(list) THEN 0
    ELSE LET s == ms[list[i]].individualScore
         IN  (IF s > 0 THEN s ELSE STARTING_SCORE) + SumScores(ms, list, i + 1)

getCircleAverageScore(cs, ms, c) ==
    IF Len(cs[c].members) = 0 THEN STARTING_SCORE
    ELSE SumScores(ms, cs[c].members, 1) \div Len(cs[c].members)

getTrustScore(cs, ms, u) ==
    LET member == ms[u]
        individualScore ==
            IF member.individualScore > 0 THEN member.individualScore ELSE STARTING_SCORE
    IN  IF member.circleId = 0 THEN individualScore
        ELSE IF ~cs[member.circleId].isActive THEN individualScore
        ELSE (individualScore * INDIVIDUAL_WEIGHT
              + getCircleAverageScore(cs, ms, member.circleId) * CIRCLE_WEIGHT) \div 100

\* Mutant of getMaxLoanAmount: a score of 60 stays in the lowest tier.
getMaxLoanAmountShifted(cs, ms, u) ==
    LET score == getTrustScore(cs, ms, u)
    IN  IF score <= 60 THEN 10 * ether
        ELSE IF score < 70 THEN 20 * ether
        ELSE IF score < 80 THEN 50 * ether
        ELSE IF score < 90 THEN 100 * ether
        ELSE 200 * ether

getMaxLoanAmount(cs, ms, u) ==
    LET score == getTrustScore(cs, ms, u)
    IN  IF score < 60 THEN 10 * ether
        ELSE IF score < 70 THEN 20 * ether
        ELSE IF score < 80 THEN 50 * ether
        ELSE IF score < 90 THEN 100 * ether
        ELSE 200 * ether

getInterestRate(cs, ms, u) ==
    LET score == getTrustScore(cs, ms, u)
    IN  IF score < 60 THEN 6
        ELSE IF score < 70 THEN 4
        ELSE IF score < 80 THEN 4
        ELSE IF score < 90 THEN 2
        ELSE 2


(* -------------------------- circle management ------------------------- *)

NewMember(c, value) ==
    [circleId |-> c, individualScore |-> STARTING_SCORE, trustBond |-> value,
     totalBorrowed |-> 0, totalRepaid |-> 0, loansCompleted |-> 0, isActive |-> TRUE,
     hasActiveLoan |-> FALSE]

\* Mutant of createCircleGuard: the check of the name is missing.
createCircleGuardAnyName(caller, name, value) ==
    /\ value >= MIN_STAKE
    /\ members[caller].circleId = 0

createCircleGuard(caller, name, value) ==
    /\ value >= MIN_STAKE
    /\ members[caller].circleId = 0
    /\ name # ""

createCircle(caller, name, value) ==
    IF createCircleGuard(caller, name, value)
    THEN /\ circleCount' = circleCount + 1
         /\ circles' = [circles EXCEPT ![circleCount + 1] =
                [id |-> circleCount + 1, name |-> name, members |-> << caller >>,
                 totalStake |-> value, createdAt |-> now, isActive |-> FALSE]]
         /\ members' = [members EXCEPT ![caller] = NewMember(circleCount + 1, value)]
         /\ circleExists' = [circleExists EXCEPT ![circleCount + 1] = TRUE]
         /\ balance' = balance + value
         /\ UNCHANGED << admin, loanCount, isDemoMode, demoLoanDuration, loans, userLoans,
                         now, paidOut, penalized >>
    ELSE Revert

\* Mutant of joinCircleGuard: a member of a circle may join another one.
joinCircleGuardRejoin(caller, c, value) ==
    /\ value >= MIN_STAKE
    /\ c \in CircleIds
    /\ circleExists[c]
    /\ Len(circles[c].members) < MAX_CIRCLE_SIZE

\* Mutant of joinCircleGuard: the check of the circle's size is missing.
joinCircleGuardNoLimit(caller, c, value) ==
    /\ value >= MIN_STAKE
    /\ members[caller].circleId = 0
    /\ c \in CircleIds
    /\ circleExists[c]

joinCircleGuard(caller, c, value) ==
    /\ value >= MIN_STAKE
    /\ members[caller].circleId = 0
    /\ c \in CircleIds
    /\ circleExists[c]
    /\ Len(circles[c].members) < MAX_CIRCLE_SIZE

\* Mutant of joinCircle: the stake is not added to the circle's total.
joinCircleUncounted(caller, c, value) ==
    IF joinCircleGuard(caller, c, value)
    THEN LET joined == Append(circles[c].members, caller)
         IN  /\ circles' = [circles EXCEPT ![c] =
                    [@ EXCEPT !.members = joined,
                              !.isActive = @ \/ Len(joined) >= MIN_CIRCLE_MEMBERS]]
             /\ members' = [members EXCEPT ![caller] = NewMember(c, value)]
             /\ balance' = balance + value
             /\ UNCHANGED << admin, circleCount, loanCount, isDemoMode, demoLoanDuration,
                             loans, userLoans, circleExists, now, paidOut, penalized >>
    ELSE Revert

\* Mutant of joinCircle: the circle is activated by its second member.
joinCircleEarly(caller, c, value) ==
    IF joinCircleGuard(caller, c, value)
    THEN LET joined == Append(circles[c].members, caller)
         IN  /\ circles' = [circles EXCEPT ![c] =
                    [@ EXCEPT !.members = joined,
                              !.totalStake = @ + value,
                              !.isActive = @ \/ Len(joined) >= MIN_CIRCLE_MEMBERS - 1]]
             /\ members' = [members EXCEPT ![caller] = NewMember(c, value)]
             /\ balance' = balance + value
             /\ UNCHANGED << admin, circleCount, loanCount, isDemoMode, demoLoanDuration,
                             loans, userLoans, circleExists, now, paidOut, penalized >>
    ELSE Revert

joinCircle(caller, c, value) ==
    IF joinCircleGuard(caller, c, value)
    THEN LET joined == Append(circles[c].members, caller)
         IN  /\ circles' = [circles EXCEPT ![c] =
                    [@ EXCEPT !.members = joined,
                              !.totalStake = @ + value,
                              !.isActive = @ \/ Len(joined) >= MIN_CIRCLE_MEMBERS]]
             /\ members' = [members EXCEPT ![caller] = NewMember(c, value)]
             /\ balance' = balance + value
             /\ UNCHANGED << admin, circleCount, loanCount, isDemoMode, demoLoanDuration,
                             loans, userLoans, circleExists, now, paidOut, penalized >>
    ELSE Revert

(* --------------------------- loan management -------------------------- *)

\* Mutant of notFrozen: membership of a circle stands in for the active flag.
notFrozenMember(caller) == members[caller].circleId # 0

notFrozen(caller) == members[caller].isActive

inActiveCircle(caller) ==
    /\ members[caller].circleId > 0
    /\ circles[members[caller].circleId].isActive

\* Mutant of requestLoanGuard: the notFrozen modifier is missing.
requestLoanGuardFrozenAllowed(caller, amount, purpose) ==
    /\ inActiveCircle(caller)
    /\ ~members[caller].hasActiveLoan
    /\ amount > 0
    /\ purpose # ""
    /\ amount <= getMaxLoanAmount(circles, members, caller)

\* Mutant of requestLoanGuard: the check of the hasActiveLoan flag is missing.
requestLoanGuardNoActiveCheck(caller, amount, purpose) ==
    /\ notFrozen(caller)
    /\ inActiveCircle(caller)
    /\ amount > 0
    /\ purpose # ""
    /\ amount <= getMaxLoanAmount(circles, members, caller)

requestLoanGuard(caller, amount, purpose) ==
    /\ notFrozen(caller)
    /\ inActiveCircle(caller)
    /\ ~members[caller].hasActiveLoan
    /\ amount > 0
    /\ purpose # ""
    /\ amount <= getMaxLoanAmount(circles, members, caller)

\* Mutant of requestLoan: the interest is rounded up.
requestLoanRoundingUp(caller, amount, purpose) ==
    IF requestLoanGuard(caller, amount, purpose)
    THEN LET interest ==
                 (amount * getInterestRate(circles, members, caller) + 99) \div 100
         IN  /\ loanCount' = loanCount + 1
             /\ loans' = [loans EXCEPT ![loanCount + 1] =
                    [id |-> loanCount + 1, borrower |-> caller, amount |-> amount,
                     interestAmount |-> interest, totalRepayment |-> amount + interest,
                     requestTime |-> now, approvalTime |-> 0, disbursementTime |-> 0,
                     dueDate |-> 0, repaymentTime |-> 0, approved |-> FALSE,
                     disbursed |-> FALSE, repaid |-> FALSE, purpose |-> purpose]]
             /\ userLoans' = [userLoans EXCEPT ![caller] = Append(@, loanCount + 1)]
             /\ members' = [members EXCEPT ![caller].hasActiveLoan = TRUE]
             /\ UNCHANGED << admin, circleCount, isDemoMode, demoLoanDuration, circles,
                             circleExists, balance, now, paidOut, penalized >>
    ELSE Revert

requestLoan(caller, amount, purpose) ==
    IF requestLoanGuard(caller, amount, purpose)
    THEN LET interest == (amount * getInterestRate(circles, members, caller)) \div 100
         IN  /\ loanCount' = loanCount + 1
             /\ loans' = [loans EXCEPT ![loanCount + 1] =
                    [id |-> loanCount + 1, borrower |-> caller, amount |-> amount,
                     interestAmount |-> interest, totalRepayment |-> amount + interest,
                     requestTime |-> now, approvalTime |-> 0, disbursementTime |-> 0,
                     dueDate |-> 0, repaymentTime |-> 0, approved |-> FALSE,
                     disbursed |-> FALSE, repaid |-> FALSE, purpose |-> purpose]]
             /\ userLoans' = [userLoans EXCEPT ![caller] = Append(@, loanCount + 1)]
             /\ members' = [members EXCEPT ![caller].hasActiveLoan = TRUE]
             /\ UNCHANGED << admin, circleCount, isDemoMode, demoLoanDuration, circles,
                             circleExists, balance, now, paidOut, penalized >>
    ELSE Revert

\* Mutant of Duration: the demo duration applies whatever the mode.
DurationDemo == demoLoanDuration

\* Mutant of Duration: the demo duration is ignored.
DurationStandard == LOAN_DURATION

\* The loan duration in force.
Duration == IF isDemoMode THEN demoLoanDuration ELSE LOAN_DURATION

\* Mutant of approveLoanGuard: the checks of approved and disbursed are missing.
approveLoanGuardNoStateCheck(caller, l) ==
    /\ caller = admin
    /\ loans[l].borrower # NullAddr
    /\ balance >= loans[l].amount

\* Mutant of approveLoanGuard: the check of the balance is missing.
approveLoanGuardNoFunds(caller, l) ==
    /\ caller = admin
    /\ loans[l].borrower # NullAddr
    /\ ~loans[l].approved
    /\ ~loans[l].disbursed

approveLoanGuard(caller, l) ==
    /\ caller = admin
    /\ loans[l].borrower # NullAddr
    /\ ~loans[l].approved
    /\ ~loans[l].disbursed
    /\ balance >= loans[l].amount

approveLoan(caller, l, accepted) ==
    IF approveLoanGuard(caller, l) /\ accepted
    THEN /\ loans' = [loans EXCEPT ![l] =
                [@ EXCEPT !.approved = TRUE, !.approvalTime = now,
                          !.disbursed = TRUE, !.disbursementTime = now,
                          !.dueDate = now + Duration]]
         /\ members' = [members EXCEPT ![loans[l].borrower].totalBorrowed =
                            @ + loans[l].amount]
         /\ balance' = balance - loans[l].amount
         /\ paidOut' = [paidOut EXCEPT ![l] = @ + 1]
         /\ UNCHANGED << admin, circleCount, loanCount, isDemoMode, demoLoanDuration,
                         circles, userLoans, circleExists, now, penalized >>
    ELSE Revert

disburseLoanGuard(caller, l, value) ==
    /\ caller = admin
    /\ loans[l].approved
    /\ ~loans[l].disbursed
    /\ value = loans[l].amount

\* msg.value enters the balance and the same amount leaves it to the borrower.
disburseLoan(caller, l, value, accepted) ==
    IF disburseLoanGuard(caller, l, value) /\ accepted
    THEN /\ loans' = [loans EXCEPT ![l] =
                [@ EXCEPT !.disbursed = TRUE, !.disbursementTime = now,
                          !.dueDate = now + Duration]]
         /\ members' = [members EXCEPT ![loans[l].borrower].totalBorrowed =
                            @ + loans[l].amount]
         /\ balance' = balance + value - loans[l].amount
         /\ paidOut' = [paidOut EXCEPT ![l] = @ + 1]
         /\ UNCHANGED << admin, circleCount, loanCount, isDemoMode, demoLoanDuration,
                         circles, userLoans, circleExists, now, penalized >>
    ELSE Revert

\* Mutant of calculateCreditBonus: the last second of the on-time tier falls
\* into the late tier.
calculateCreditBonusStrict(dueDate, repaymentTime) ==
    IF repaymentTime < dueDate THEN EARLY_BONUS
    ELSE IF repaymentTime < dueDate + GRACE_SHORT THEN ON_TIME_BONUS
    ELSE IF repaymentTime <= dueDate + GRACE_LONG THEN LATE_PENALTY
    ELSE 0

\* Mutant of calculateCreditBonus: an early repayment earns the on-time bonus.
calculateCreditBonusNoEarly(dueDate, repaymentTime) ==
    IF repaymentTime <= dueDate + GRACE_SHORT THEN ON_TIME_BONUS
    ELSE IF repaymentTime <= dueDate + GRACE_LONG THEN LATE_PENALTY
    ELSE 0

calculateCreditBonus(dueDate, repaymentTime) ==
    IF repaymentTime < dueDate THEN EARLY_BONUS
    ELSE IF repaymentTime <= dueDate + GRACE_SHORT THEN ON_TIME_BONUS
    ELSE IF repaymentTime <= dueDate + GRACE_LONG THEN LATE_PENALTY
    ELSE 0

\* The borrower's score after a repayment.
updateScoresOnRepayment(score, creditBonus) ==
    IF creditBonus > 0
    THEN IF score + creditBonus > MAX_SCORE THEN MAX_SCORE ELSE score + creditBonus
    ELSE score

\* Mutant of repayLoanGuard: a frozen borrower is rejected.
repayLoanGuardNotFrozen(caller, l, value) ==
    /\ notFrozen(caller)
    /\ loans[l].borrower = caller
    /\ loans[l].disbursed
    /\ ~loans[l].repaid
    /\ value = loans[l].totalRepayment

\* Mutant of repayLoanGuard: a payment above totalRepayment is accepted.
repayLoanGuardOverpay(caller, l, value) ==
    /\ loans[l].borrower = caller
    /\ loans[l].disbursed
    /\ ~loans[l].repaid
    /\ value >= loans[l].totalRepayment

repayLoanGuard(caller, l, value) ==
    /\ loans[l].borrower = caller
    /\ loans[l].disbursed
    /\ ~loans[l].repaid
    /\ value = loans[l].totalRepayment

\* Mutant of repayLoan: the principal is recorded as the amount repaid.
repayLoanPrincipal(caller, l, value) ==
    IF repayLoanGuard(caller, l, value)
    THEN /\ loans' = [loans EXCEPT ![l] = [@ EXCEPT !.repaid = TRUE, !.repaymentTime = now]]
         /\ members' = [members EXCEPT ![caller] =
                [@ EXCEPT !.totalRepaid = @ + loans[l].amount,
                          !.loansCompleted = @ + 1,
                          !.hasActiveLoan = FALSE,
                          !.individualScore = updateScoresOnRepayment(@,
                                calculateCreditBonus(loans[l].dueDate, now))]]
         /\ balance' = balance + value
         /\ UNCHANGED << admin, circleCount, loanCount, isDemoMode, demoLoanDuration,
                         circles, userLoans, circleExists, now, paidOut, penalized >>
    ELSE Revert

\* Mutant of repayLoan: the interest is evaluated again at repayment.
repayLoanReevaluating(caller, l, value) ==
    IF repayLoanGuard(caller, l, value)
    THEN LET interest == (loans[l].amount
                            * getInterestRate(circles, members, caller)) \div 100
         IN
         /\ loans' = [loans EXCEPT ![l] =
                [@ EXCEPT !.repaid = TRUE, !.repaymentTime = now,
                          !.interestAmount = interest,
                          !.totalRepayment = loans[l].amount + interest]]
         /\ members' = [members EXCEPT ![caller] =
                [@ EXCEPT !.totalRepaid = @ + loans[l].totalRepayment,
                          !.loansCompleted = @ + 1,
                          !.hasActiveLoan = FALSE,
                          !.individualScore = updateScoresOnRepayment(@,
                                calculateCreditBonus(loans[l].dueDate, now))]]
         /\ balance' = balance + value
         /\ UNCHANGED << admin, circleCount, loanCount, isDemoMode, demoLoanDuration,
                         circles, userLoans, circleExists, now, paidOut, penalized >>
    ELSE Revert

repayLoan(caller, l, value) ==
    IF repayLoanGuard(caller, l, value)
    THEN /\ loans' = [loans EXCEPT ![l] = [@ EXCEPT !.repaid = TRUE, !.repaymentTime = now]]
         /\ members' = [members EXCEPT ![caller] =
                [@ EXCEPT !.totalRepaid = @ + loans[l].totalRepayment,
                          !.loansCompleted = @ + 1,
                          !.hasActiveLoan = FALSE,
                          !.individualScore = updateScoresOnRepayment(@,
                                calculateCreditBonus(loans[l].dueDate, now))]]
         /\ balance' = balance + value
         /\ UNCHANGED << admin, circleCount, loanCount, isDemoMode, demoLoanDuration,
                         circles, userLoans, circleExists, now, paidOut, penalized >>
    ELSE Revert

(* --------------------------- default handling ------------------------- *)

\* Mutant of Slash: the subtraction without the floor at 0.
SlashUnchecked(score, penalty) == score - penalty

\* Saturating subtraction of a penalty.
Slash(score, penalty) == IF score >= penalty THEN score - penalty ELSE 0

\* The loop of _penalizeCircle from position i of the member list.
\* Mutant of penalizeCircle: the defaulter is not excluded from the cascade.
RECURSIVE penalizeCircleAll(_, _, _, _)
penalizeCircleAll(ms, list, defaulter, i) ==
    IF i > Len(list) THEN ms
    ELSE penalizeCircleAll(
            [ms EXCEPT ![list[i]].individualScore = Slash(@, CIRCLE_DEFAULT_PENALTY)],
            list, defaulter, i + 1)

RECURSIVE penalizeCircle(_, _, _, _)
penalizeCircle(ms, list, defaulter, i) ==
    IF i > Len(list) THEN ms
    ELSE IF list[i] # defaulter
         THEN penalizeCircle(
                [ms EXCEPT ![list[i]].individualScore = Slash(@, CIRCLE_DEFAULT_PENALTY)],
                list, defaulter, i + 1)
         ELSE penalizeCircle(ms, list, defaulter, i + 1)

\* Mutant of penalizeDefaultGuard: the check of repaid is missing.
penalizeDefaultGuardRepaid(caller, l) ==
    /\ caller = admin
    /\ loans[l].disbursed
    /\ now > loans[l].dueDate + DEFAULT_GRACE

\* Mutant of penalizeDefaultGuard: the grace period compared with >= for >.
penalizeDefaultGuardAtGrace(caller, l) ==
    /\ caller = admin
    /\ loans[l].disbursed
    /\ ~loans[l].repaid
    /\ now >= loans[l].dueDate + DEFAULT_GRACE

penalizeDefaultGuard(caller, l) ==
    /\ caller = admin
    /\ loans[l].disbursed
    /\ ~loans[l].repaid
    /\ now > loans[l].dueDate + DEFAULT_GRACE

\* Mutant of penalizeDefault: the penalty closes the borrower's active loan.
penalizeDefaultClosing(caller, l) ==
    IF penalizeDefaultGuard(caller, l)
    THEN LET borrower == loans[l].borrower
             slashed == [members EXCEPT ![borrower] =
                            [@ EXCEPT !.individualScore = Slash(@, DEFAULT_PENALTY),
                                      !.isActive = FALSE,
                                      !.hasActiveLoan = FALSE]]
         IN  /\ members' = IF slashed[borrower].circleId > 0
                           THEN penalizeCircle(slashed,
                                    circles[slashed[borrower].circleId].members, borrower, 1)
                           ELSE slashed
             /\ penalized' = penalized \cup {l}
             /\ UNCHANGED << admin, circleCount, loanCount, isDemoMode, demoLoanDuration,
                             circles, loans, userLoans, circleExists, balance, now, paidOut >>
    ELSE Revert

penalizeDefault(caller, l) ==
    IF penalizeDefaultGuard(caller, l)
    THEN LET borrower == loans[l].borrower
             slashed == [members EXCEPT ![borrower] =
                            [@ EXCEPT !.individualScore = Slash(@, DEFAULT_PENALTY),
                                      !.isActive = FALSE]]
         IN  /\ members' = IF slashed[borrower].circleId > 0
                           THEN penalizeCircle(slashed,
                                    circles[slashed[borrower].circleId].members, borrower, 1)
                           ELSE slashed
             /\ penalized' = penalized \cup {l}
             /\ UNCHANGED << admin, circleCount, loanCount, isDemoMode, demoLoanDuration,
                             circles, loans, userLoans, circleExists, balance, now, paidOut >>
    ELSE Revert

(* ------------------------------- views -------------------------------- *)

\* Mutant of isLoanOverdue: the due date alone decides.
isLoanOverdueByDate(l) == now > loans[l].dueDate

isLoanOverdue(l) ==
    loans[l].disbursed /\ ~loans[l].repaid /\ now > loans[l].dueDate

(* --------------------------- admin functions -------------------------- *)

setDemoMode(caller, enabled) ==
    IF caller = admin
    THEN /\ isDemoMode' = enabled
         /\ UNCHANGED << admin, circleCount, loanCount, demoLoanDuration, circles, members,
                         loans, userLoans, circleExists, balance, now, paidOut, penalized >>
    ELSE Revert

setDemoLoanDuration(caller, duration) ==
    IF caller = admin
    THEN /\ demoLoanDuration' = duration
         /\ UNCHANGED << admin, circleCount, loanCount, isDemoMode, circles, members,
                         loans, userLoans, circleExists, balance, now, paidOut, penalized >>
    ELSE Revert

depositLiquidityGuard(caller, value) ==
    /\ caller = admin
    /\ value > 0

depositLiquidity(caller, value) ==
    IF depositLiquidityGuard(caller, value)
    THEN /\ balance' = balance + value
         /\ UNCHANGED << admin, circleCount, loanCount, isDemoMode, demoLoanDuration,
                         circles, members, loans, userLoans, circleExists, now, paidOut,
                         penalized >>
    ELSE Revert

\* Mutant of withdrawGuard: the check of the balance is missing.
withdrawGuardNoFunds(caller, amount) ==
    /\ caller = admin
    /\ amount > 0

withdrawGuard(caller, amount) ==
    /\ caller = admin
    /\ amount > 0
    /\ balance >= amount

withdraw(caller, amount, accepted) ==
    IF withdrawGuard(caller, amount) /\ accepted
    THEN /\ balance' = balance - amount
         /\ UNCHANGED << admin, circleCount, loanCount, isDemoMode, demoLoanDuration,
                         circles, members, loans, userLoans, circleExists, now, paidOut,
                         penalized >>
    ELSE Revert

\* Mutant of unfreezeAccount: the unfrozen member's active loan is cleared too.
unfreezeAccountClearing(caller, user) ==
    IF caller = admin
    THEN /\ members' = [members EXCEPT ![user].isActive = TRUE,
                                       ![user].hasActiveLoan = FALSE]
         /\ UNCHANGED << admin, circleCount, loanCount, isDemoMode, demoLoanDuration,
                         circles, loans, userLoans, circleExists, balance, now, paidOut,
                         penalized >>
    ELSE Revert

unfreezeAccount(caller, user) ==
    IF caller = admin
    THEN /\ members' = [members EXCEPT ![user].isActive = TRUE]
         /\ UNCHANGED << admin, circleCount, loanCount, isDemoMode, demoLoanDuration,
                         circles, loans, userLoans, circleExists, balance, now, paidOut,
                         penalized >>
    ELSE Revert

\* Mutant of transferAdminGuard: the check of the null address is missing.
transferAdminGuardNull(caller, newAdmin) == caller = admin

\* Mutant of transferAdminGuard: the onlyAdmin modifier is missing.
transferAdminGuardAnyone(caller, newAdmin) == newAdmin # NullAddr

transferAdminGuard(caller, newAdmin) ==
    /\ caller = admin
    /\ newAdmin # NullAddr

transferAdmin(caller, newAdmin) ==
    IF transferAdminGuard(caller, newAdmin)
    THEN /\ admin' = newAdmin
         /\ UNCHANGED << circleCount, loanCount, isDemoMode, demoLoanDuration, circles,
                         members, loans, userLoans, circleExists, balance, now, paidOut,
                         penalized >>
    ELSE Revert

\* receive() external payable {}: ether sent to the contract with no call data.
receive(value) ==
    /\ balance' = balance + value
    /\ UNCHANGED << admin, circleCount, loanCount, isDemoMode, demoLoanDuration, circles,
                    members, loans, userLoans, circleExists, now, paidOut, penalized >>

(* ------------------------------ the clock ----------------------------- *)

Outstanding(l) == loans[l].disbursed /\ ~loans[l].repaid

\* block.timestamp moves forward to a milestone (an offset from the due date) of
\* an outstanding loan: the contract reads the clock only to compare it with
\* a due date, a due date plus a grace period, or to store it.
Tick(t, milestones) ==
    /\ t > now
    /\ \E l \in LoanIds : Outstanding(l) /\ (t - loans[l].dueDate) \in milestones
    /\ now' = t
    /\ UNCHANGED << ledger, paidOut, penalized >>

(* ------------------------- the advisory service ----------------------- *)

\* Inputs of calculateTrustScoreBreakdown.  An optional number that is absent
\* takes the branch of 0, an absent member list the branch of the empty list.
MaxHistory == 3
WalletAges == {0, 30, 90, 180}
ActivityDays == {0, 30, 90}
CircleCounts == {0, 3}
MemberScores == {0, 60, 100}

BreakdownInputs ==
    [walletAge : WalletAges,
     previousLoans : 0 .. MaxHistory,
     successfulRepayments : 0 .. MaxHistory,
     isVerified : BOOLEAN,
     circleCount : CircleCounts,
     platformActivityDays : ActivityDays,
     circleMembers : {<< >>} \cup [1 .. 2 -> {100}] \cup [1 .. 3 -> MemberScores]]

\* Math.round of the quotient num / den of two naturals.
Round(num, den) == (2 * num + den) \div (2 * den)

RECURSIVE Reduce(_, _)
Reduce(list, n) == IF n = 0 THEN 0 ELSE Reduce(list, n - 1) + list[n]

circleActivityScore(data) ==
    IF Len(data.circleMembers) >= 3
    THEN Round(Reduce(data.circleMembers, Len(data.circleMembers)) * 10,
               Len(data.circleMembers) * 60)
    ELSE IF data.circleCount >= 5 THEN 10
    ELSE IF data.circleCount >= 3 THEN 7
    ELSE IF data.circleCount >= 1 THEN 4
    ELSE 0

calculateTrustScoreBreakdown(data) ==
    LET walletAgeScore ==
            IF data.walletAge >= 180 THEN 15
            ELSE IF data.walletAge >= 90 THEN 10
            ELSE IF data.walletAge >= 30 THEN 5
            ELSE 0
        repaymentHistoryScore ==
            IF data.previousLoans # 0 /\ data.successfulRepayments # 0
            THEN IF data.successfulRepayments = data.previousLoans THEN 15
                 ELSE IF 10 * data.successfulRepayments >= 9 * data.previousLoans THEN 12
                 ELSE IF 4 * data.successfulRepayments >= 3 * data.previousLoans THEN 8
                 ELSE IF 2 * data.successfulRepayments >= data.previousLoans THEN 4
                 ELSE 0
            ELSE 0
        selfieVerificationScore == IF data.isVerified THEN 10 ELSE 0
        platformActivityScore ==
            IF data.platformActivityDays >= 90 THEN 10
            ELSE IF data.platformActivityDays >= 30 THEN 7
            ELSE IF data.platformActivityDays >= 7 THEN 4
            ELSE 0
        totalTrustScore ==
            walletAgeScore + repaymentHistoryScore + selfieVerificationScore
                + circleActivityScore(data) + platformActivityScore
    IN  [walletAgeScore |-> walletAgeScore,
         repaymentHistoryScore |-> repaymentHistoryScore,
         selfieVerificationScore |-> selfieVerificationScore,
         circleActivityScore |-> circleActivityScore(data),
         platformActivityScore |-> platformActivityScore,
         totalTrustScore |-> totalTrustScore,
         riskLevel |-> IF totalTrustScore >= 40 THEN "low"
                       ELSE IF totalTrustScore >= 20 THEN "medium"
                       ELSE "high"]

\* A caller passes data; the function returns its breakdown.
InitBreakdown ==
    /\ InitLedger
    /\ selfie = NoCall
    /\ \E data \in BreakdownInputs : breakdown = [pc |-> "called", data |-> data]

ReturnBreakdown ==
    /\ breakdown.pc = "called"
    /\ breakdown' = [pc |-> "returned", data |-> breakdown.data,
                     result |-> calculateTrustScoreBreakdown(breakdown.data)]
    /\ UNCHANGED << vars, selfie >>

NextBreakdown == ReturnBreakdown

SpecBreakdown == InitBreakdown /\ [][NextBreakdown]_<< vars, offchain >>

\* verifySelfieWithGemini(imageBase64, retries = 3).
DEFAULT_RETRIES == 3

\* Replies of the Gemini API to one request: an HTTP status with an error text
\* that may name a quota or an API key, or no reply at all (fetch rejects).
Statuses == {200, 401, 429, 500}
ErrorTexts == {"plain", "quota", "API key"}

\* Bodies of a 200 reply: no candidate text, text without a JSON object, a JSON
\* object that does not parse, or a parsed analysis.
Analyses ==
    [face_detected : BOOLEAN, is_real_person : BOOLEAN, is_verified : BOOLEAN,
     verification_recommendation : {"approve", "reject", "manual_review"},
     rejection_reasons : {"absent", "present"}]

\* The object literals returned without an analysis.
Refusal(recommendation, reason) ==
    [is_verified |-> FALSE, is_real_person |-> FALSE, face_detected |-> FALSE,
     verification_recommendation |-> recommendation, rejection_reasons |-> reason]

\* Mutant of postValidate: the rejection of an analysis without a face is missing.
postValidateTrusting(analysis) ==
    IF analysis.face_detected /\ analysis.is_real_person
    THEN [analysis EXCEPT !.is_verified = TRUE,
                          !.verification_recommendation = "approve"]
    ELSE analysis

\* The two forcing rules applied to the parsed analysis before it is returned.
postValidate(analysis) ==
    LET rejected == IF ~analysis.face_detected
                    THEN [analysis EXCEPT !.is_verified = FALSE,
                                          !.verification_recommendation = "reject",
                                          !.rejection_reasons = "present"]
                    ELSE analysis
    IN  IF rejected.face_detected /\ rejected.is_real_person
        THEN [rejected EXCEPT !.is_verified = TRUE,
                              !.verification_recommendation = "approve"]
        ELSE rejected

\* The catch block: the result chosen by what the error message includes.
Caught(message) ==
    IF message \in {"quota", "429"}
    THEN Refusal("manual_review", "API rate limit reached")
    ELSE IF message \in {"API key", "401"}
    THEN Refusal("manual_review", "API configuration error")
    ELSE Refusal("manual_review", "Verification system error")

\* What the message of `Gemini API error: ${status} - ${errorText}` includes
\* first, in the order the catch block tests it.
HttpMessage(status, text) ==
    IF status = 429 \/ text = "quota" THEN "429"
    ELSE IF status = 401 \/ text = "API key" THEN "401"
    ELSE "other"

InitSelfie ==
    /\ InitLedger
    /\ breakdown = NoCall
    /\ \E image \in {"too small", "selfie"}, apiKey \in BOOLEAN,
          retries \in 0 .. DEFAULT_RETRIES :
          selfie = [pc |-> "entry", image |-> image, apiKey |-> apiKey,
                    budget |-> retries, retries |-> retries, calls |-> 0, status |-> 0]

Return(result) ==
    /\ selfie' = [selfie EXCEPT !.pc = "returned"] @@ [result |-> result]
    /\ UNCHANGED << vars, breakdown >>

\* From the entry of a call to its fetch: the image check, the API key.
Enter ==
    /\ selfie.pc = "entry"
    /\ IF selfie.image = "too small"
       THEN Return(Refusal("reject", "Invalid image data"))
       ELSE IF ~selfie.apiKey
       THEN Return(Caught("API key"))
       ELSE /\ selfie' = [selfie EXCEPT !.pc = "fetching", !.calls = @ + 1]
            /\ UNCHANGED << vars, breakdown >>

\* fetch rejects: no reply.
FetchFails ==
    /\ selfie.pc = "fetching"
    /\ Return(Caught("fetch failed"))

\* A reply that is not ok: a 429 with retries left waits and calls again, any
\* other one throws.
ReplyError ==
    /\ selfie.pc = "fetching"
    /\ \E status \in Statuses \ {200}, text \in ErrorTexts :
          IF status = 429 /\ selfie.retries > 0
          THEN /\ selfie' = [selfie EXCEPT !.pc = "waiting", !.status = status]
               /\ UNCHANGED << vars, breakdown >>
          ELSE /\ selfie' = [selfie EXCEPT !.pc = "returned", !.status = status]
                                @@ [result |-> Caught(HttpMessage(status, text))]
               /\ UNCHANGED << vars, breakdown >>

\* The timer of the backoff fires: the recursive call with one retry less,
\* which has no response of its own yet.
Retry ==
    /\ selfie.pc = "waiting"
    /\ selfie' = [selfie EXCEPT !.pc = "entry", !.retries = @ - 1, !.status = 0]
    /\ UNCHANGED << vars, breakdown >>

\* A 200 reply whose body gives no analysis.
ReplyUnusable ==
    /\ selfie.pc = "fetching"
    /\ \E message \in {"No response text", "Invalid JSON response", "quota", "other"} :
          /\ selfie' = [selfie EXCEPT !.pc = "returned", !.status = 200]
                            @@ [result |-> Caught(message)]
          /\ UNCHANGED << vars, breakdown >>

\* A 200 reply with an analysis; rejection_reasons.includes throws if the
\* analysis has no face and no list of reasons.
ReplyAnalysis ==
    /\ selfie.pc = "fetching"
    /\ \E analysis \in Analyses :
          /\ selfie' = [selfie EXCEPT !.pc = "returned", !.status = 200]
                @@ [result |->
                        IF ~analysis.face_detected /\ analysis.rejection_reasons = "absent"
                        THEN Caught("TypeError")
                        ELSE postValidate(analysis)]
          /\ UNCHANGED << vars, breakdown >>

NextSelfie ==
    \/ Enter
    \/ FetchFails
    \/ ReplyError
    \/ Retry
    \/ ReplyUnusable
    \/ ReplyAnalysis

SpecSelfie == InitSelfie /\ [][NextSelfie]_<< vars, offchain >>

\* The promise of fetch settles and the timer fires: a pending call goes on.
SpecSelfieFair == SpecSelfie /\ WF_<< vars, offchain >>(NextSelfie)

(* --------------------------- inputs and Next -------------------------- *)

\* A transaction of the contract, or a block of the chain, leaves the advisory
\* service as it is.
Tx(A) == A /\ UNCHANGED offchain

\* The loan ids passed to a call: every loan created so far and one id that
\* names no loan.
SomeLoans == {l \in LoanIds : l <= loanCount + 1}

\* One step of the contract: any external function called with inputs drawn
\* from the sets of the profile P.  A call that would pass its guards beyond
\* a bound of the model is left out; a rejected call never is.
NextWith(P) ==
    \/ \E caller \in P.creators, name \in P.names, value \in P.stakes :
            /\ createCircleGuard(caller, name, value) => circleCount < MaxCircles
            /\ Tx(createCircle(caller, name, value))
    \/ \E caller \in P.joiners, c \in 1 .. MaxCircles + 1, value \in P.stakes :
            Tx(joinCircle(caller, c, value))
    \/ \E caller \in P.borrowers, amount \in P.amounts, purpose \in P.purposes :
            /\ requestLoanGuard(caller, amount, purpose) => loanCount < P.loanCap
            /\ Tx(requestLoan(caller, amount, purpose))
    \/ \E caller \in P.operators, l \in SomeLoans, accepted \in P.accepts :
            Tx(approveLoan(caller, l, accepted))
    \/ \E caller \in P.operators, l \in SomeLoans, accepted \in P.accepts :
            \E value \in {loans[l].amount, loans[l].amount + 1} :
                Tx(disburseLoan(caller, l, value, accepted))
    \/ \E caller \in P.borrowers, l \in SomeLoans :
            \E value \in {loans[l].totalRepayment, loans[l].totalRepayment + 1} :
                Tx(repayLoan(caller, l, value))
    \/ \E caller \in P.operators, l \in SomeLoans : Tx(penalizeDefault(caller, l))
    \/ \E caller \in P.operators, enabled \in P.modes : Tx(setDemoMode(caller, enabled))
    \/ \E caller \in P.operators, duration \in P.durations :
            Tx(setDemoLoanDuration(caller, duration))
    \/ \E caller \in P.operators, value \in P.deposits :
            /\ depositLiquidityGuard(caller, value) => balance + value <= MaxBalance
            /\ Tx(depositLiquidity(caller, value))
    \/ \E caller \in P.operators, amount \in P.withdrawals, accepted \in P.accepts :
            Tx(withdraw(caller, amount, accepted))
    \/ \E caller \in P.operators, user \in P.unfrozen : Tx(unfreezeAccount(caller, user))
    \/ \E caller \in P.operators, newAdmin \in P.newAdmins : Tx(transferAdmin(caller, newAdmin))
    \/ \E value \in P.gifts :
            /\ balance + value <= MaxBalance
            /\ Tx(receive(value))
    \/ \E l \in SomeLoans, m \in P.milestones : Tx(Tick(loans[l].dueDate + m, P.milestones))

\* Two borrowers of one circle with up to FewLoans loans between them, funded by
\* the stakes or a deposit; the admin and the demo settings stay as deployed.
Lending ==
    [creators |-> {1}, joiners |-> {2, 3}, borrowers |-> {1, 2}, operators |-> {1, 2},
     names |-> {"", "circle"}, stakes |-> {MIN_STAKE - 1, MIN_STAKE},
     amounts |-> {0, ether, 10 * ether + 1}, purposes |-> {"", "rent"},
     accepts |-> BOOLEAN, modes |-> {FALSE}, durations |-> {INITIAL_DEMO_DURATION},
     deposits |-> {0, 10 * ether}, withdrawals |-> {0, 10 * ether},
     unfrozen |-> {1, 2}, newAdmins |-> {NullAddr}, gifts |-> {0},
     milestones |-> {0, GRACE_LONG + 1, DEFAULT_GRACE + 1},
     loanCap |-> FewLoans]

\* One loan; the admin, the demo mode, the demo duration, the liquidity and a
\* second circle all vary.
Admin ==
    [creators |-> {1, 4}, joiners |-> {2, 3}, borrowers |-> {1, 2}, operators |-> {1, 2},
     names |-> {"", "circle"}, stakes |-> {MIN_STAKE - 1, MIN_STAKE},
     amounts |-> {0, 10 * ether, 10 * ether + 1}, purposes |-> {"", "rent"},
     accepts |-> BOOLEAN, modes |-> BOOLEAN, durations |-> {1 * days},
     deposits |-> {0, 10 * ether}, withdrawals |-> {0, 10 * ether},
     unfrozen |-> {1, 2}, newAdmins |-> {NullAddr, 2}, gifts |-> {0},
     milestones |-> {0, GRACE_LONG + 1, DEFAULT_GRACE, DEFAULT_GRACE + 1},
     loanCap |-> 1]

\* One borrower through up to DeepLoans successive loans.
Deep ==
    [creators |-> {1}, joiners |-> {2, 3}, borrowers |-> {1}, operators |-> {1, 2},
     names |-> {"", "circle"}, stakes |-> {MIN_STAKE - 1, MIN_STAKE},
     amounts |-> {0, ether, 10 * ether + 1}, purposes |-> {"", "rent"},
     accepts |-> BOOLEAN, modes |-> {FALSE}, durations |-> {INITIAL_DEMO_DURATION},
     deposits |-> {0}, withdrawals |-> {0, 10 * ether},
     unfrozen |-> {1}, newAdmins |-> {NullAddr}, gifts |-> {0},
     milestones |-> {0, DEFAULT_GRACE + 1},
     loanCap |-> DeepLoans]

\* Two circles filled by the addresses 3..MaxCrowd, each joining once the
\* addresses below it have joined, while members already enrolled call again;
\* one loan.
Crowd ==
    [creators |-> {1, 2},
     joiners |-> {a \in 3 .. MaxCrowd : \A b \in 3 .. a - 1 : members[b].circleId # 0},
     borrowers |-> {1}, operators |-> {1},
     names |-> {"circle"}, stakes |-> {MIN_STAKE - 1, MIN_STAKE},
     amounts |-> {ether}, purposes |-> {"rent"},
     accepts |-> {TRUE}, modes |-> {FALSE}, durations |-> {INITIAL_DEMO_DURATION},
     deposits |-> {0}, withdrawals |-> {0},
     unfrozen |-> {1}, newAdmins |-> {NullAddr}, gifts |-> {0},
     milestones |-> {0},
     loanCap |-> 1]

\* One borrower repaying successive loans at every boundary of the bonus tiers.
Timing ==
    [creators |-> {1}, joiners |-> {2, 3}, borrowers |-> {1}, operators |-> {1},
     names |-> {"circle"}, stakes |-> {MIN_STAKE},
     amounts |-> {ether}, purposes |-> {"rent"},
     accepts |-> {TRUE}, modes |-> {FALSE}, durations |-> {INITIAL_DEMO_DURATION},
     deposits |-> {0}, withdrawals |-> {0},
     unfrozen |-> {1}, newAdmins |-> {NullAddr}, gifts |-> {0},
     milestones |-> {0, GRACE_SHORT, GRACE_SHORT + 1, GRACE_LONG, GRACE_LONG + 1,
                     DEFAULT_GRACE + 1},
     loanCap |-> DeepLoans]

\* Two borrowers of one circle repaying up to MaxLoans loans before or at the
\* due date, the second borrowing once the first has completed DeepLoans loans.
Climb ==
    [creators |-> {1}, joiners |-> {2, 3},
     borrowers |-> IF members[1].loansCompleted < DeepLoans THEN {1} ELSE {2},
     operators |-> {1},
     names |-> {"circle"}, stakes |-> {MIN_STAKE},
     amounts |-> {ether}, purposes |-> {"rent"},
     accepts |-> {TRUE}, modes |-> {FALSE}, durations |-> {INITIAL_DEMO_DURATION},
     deposits |-> {0}, withdrawals |-> {0},
     unfrozen |-> {1}, newAdmins |-> {NullAddr}, gifts |-> {0},
     milestones |-> {0},
     loanCap |-> MaxLoans]

\* One borrower through up to DeepLoans loans of 1 ether, 10 ether and just
\* above, repaid before or at the due date and funded by the stakes and by ether
\* sent to the contract.
Funded ==
    [creators |-> {1}, joiners |-> {2, 3}, borrowers |-> {1}, operators |-> {1},
     names |-> {"circle"}, stakes |-> {MIN_STAKE},
     amounts |-> {ether, 10 * ether, 10 * ether + 1}, purposes |-> {"rent"},
     accepts |-> {TRUE}, modes |-> {FALSE}, durations |-> {INITIAL_DEMO_DURATION},
     deposits |-> {0}, withdrawals |-> {0},
     unfrozen |-> {1}, newAdmins |-> {NullAddr}, gifts |-> {0, 10 * ether},
     milestones |-> {0},
     loanCap |-> DeepLoans]

\* A member who is not the admin borrows up to FewLoans loans of 10 units or of
\* 10 ether and repays a day before the due date, at it, or late.
Scenario ==
    [creators |-> {2}, joiners |-> {3, 4}, borrowers |-> {2}, operators |-> {1},
     names |-> {"circle"}, stakes |-> {MIN_STAKE, ether},
     amounts |-> {ether, 10 * ether}, purposes |-> {"rent"},
     accepts |-> {TRUE}, modes |-> {FALSE}, durations |-> {INITIAL_DEMO_DURATION},
     deposits |-> {0, 10 * ether}, withdrawals |-> {0},
     unfrozen |-> {2}, newAdmins |-> {NullAddr}, gifts |-> {0},
     milestones |-> {0 - 1 * days, 0, GRACE_SHORT + 1},
     loanCap |-> FewLoans]

\* Two circles; a member of the first borrows, repays and defaults on up to
\* FewLoans + 1 loans, being unfrozen again after a default.
Defaults ==
    [creators |-> {1, 4}, joiners |-> {2, 3}, borrowers |-> {1}, operators |-> {1},
     names |-> {"circle"}, stakes |-> {MIN_STAKE},
     amounts |-> {ether}, purposes |-> {"rent"},
     accepts |-> {TRUE}, modes |-> {FALSE}, durations |-> {INITIAL_DEMO_DURATION},
     deposits |-> {0}, withdrawals |-> {0},
     unfrozen |-> {1}, newAdmins |-> {NullAddr}, gifts |-> {0},
     milestones |-> {0, DEFAULT_GRACE + 1},
     loanCap |-> FewLoans + 1]

NextDefaults == NextWith(Defaults)
NextScenario == NextWith(Scenario)
Next == NextWith(Lending)
NextFunded == NextWith(Funded)
NextClimb == NextWith(Climb)
NextCrowd == NextWith(Crowd)
NextTiming == NextWith(Timing)
NextAdmin == NextWith(Admin)
NextDeep == NextWith(Deep)

SpecDefaults == Init /\ [][NextDefaults]_vars
SpecScenario == Init /\ [][NextScenario]_vars
Spec == Init /\ [][Next]_vars
SpecAdmin == Init /\ [][NextAdmin]_vars
SpecDeep == Init /\ [][NextDeep]_vars
SpecFunded == Init /\ [][NextFunded]_vars
SpecClimb == Init /\ [][NextClimb]_vars
SpecCrowd == Init /\ [][NextCrowd]_vars
SpecTiming == Init /\ [][NextTiming]_vars

\* The members go on using the contract: a member who can enrol does, a loan that
\* can be requested is requested, a loan that can be paid out is paid out.
MemberEnrolled == NextDeep /\ \E a \in Addrs : members'[a].circleId # members[a].circleId
LoanRequested == NextDeep /\ loanCount' > loanCount
LoanPaidOut == NextDeep /\ \E l \in LoanIds : paidOut'[l] > paidOut[l]

SpecDeepFair ==
    /\ SpecDeep
    /\ SF_vars(MemberEnrolled)
    /\ SF_vars(LoanRequested)
    /\ SF_vars(LoanPaidOut)

(* ------------------------------- claims ------------------------------- *)

\* The inputs the claims about a call range over (those of every profile).
AnyAmount == {0, ether, 10 * ether, 10 * ether + 1}
AnyText == {"", "circle", "rent"}
AnyStake == {MIN_STAKE - 1, MIN_STAKE}

\* The step changes the state: it is no rejected call.
Changed == vars' # vars

Max0(x) == IF x > 0 THEN x ELSE 0
Min100(x) == IF x < 100 THEN x ELSE 100

\* The loans of borrower a that are not repaid.
Unrepaid(a) == {l \in LoanIds : loans[l].borrower = a /\ ~loans[l].repaid}

\* C1: in every reachable state every member's individualScore lies in 0..100:
\* repayment bonuses saturate at 100, default and cascade penalties floor at 0.
C1_ScoreBounded ==
    \A a \in Addrs : members[a].individualScore >= 0 /\ members[a].individualScore <= 100

\* A fourth early repayment has saturated the borrower's score (50 + 4 * 15 > 100).
C1_Witness ==
    \E a \in Addrs : members[a].individualScore = 100 /\ members[a].loansCompleted >= 4

\* C2: each member is the borrower of at most one unrepaid loan; requestLoan by a
\* member whose hasActiveLoan is true creates no loan; and hasActiveLoan is
\* only cleared by the repayment of that member's loan.
C2_AtMostOneUnrepaid == \A a \in Addrs : Cardinality(Unrepaid(a)) <= 1

C2_SecondRequestRejected ==
    Changed =>
        \A caller \in Addrs, amount \in AnyAmount, purpose \in AnyText :
            members[caller].hasActiveLoan => ~requestLoan(caller, amount, purpose)

C2_ClearedByRepayment ==
    \A a \in Addrs :
        (members[a].hasActiveLoan /\ ~members'[a].hasActiveLoan)
            => \E l \in LoanIds :
                  loans[l].borrower = a /\ ~loans[l].repaid /\ loans'[l].repaid

C2_OneActiveLoan ==
    /\ []C2_AtMostOneUnrepaid
    /\ [][C2_SecondRequestRejected /\ C2_ClearedByRepayment]_vars

\* A member who repaid a first loan is the borrower of a second, unrepaid one
\* while another member has an unrepaid loan of their own.
C2_Witness ==
    \E a \in Addrs :
        /\ members[a].loansCompleted = 1
        /\ members[a].hasActiveLoan
        /\ Cardinality(Unrepaid(a)) = 1

\* C3: a call of a public operation with a failing guard leaves the whole state
\* as it was: no step that changes the state is a call whose caller, loan,
\* payment, amount or timing fails one of the operation's guards.
C3_CircleCalls ==
    /\ \A caller \in Addrs, name \in AnyText, value \in AnyStake :
          (value < MIN_STAKE \/ members[caller].circleId # 0 \/ name = "")
              => ~createCircle(caller, name, value)
    /\ \A caller \in Addrs, c \in 1 .. MaxCircles + 1, value \in AnyStake :
          (\/ value < MIN_STAKE
           \/ members[caller].circleId # 0
           \/ c > circleCount
           \/ Len(circles[c].members) >= 10)
              => ~joinCircle(caller, c, value)

C3_LoanCalls ==
    /\ \A caller \in Addrs, amount \in AnyAmount, purpose \in AnyText :
          (\/ ~members[caller].isActive
           \/ members[caller].circleId = 0
           \/ ~circles[members[caller].circleId].isActive
           \/ members[caller].hasActiveLoan
           \/ amount <= 0
           \/ purpose = ""
           \/ amount > getMaxLoanAmount(circles, members, caller))
              => ~requestLoan(caller, amount, purpose)
    /\ \A caller \in Addrs, l \in LoanIds, accepted \in BOOLEAN :
          (\/ caller # admin
           \/ l > loanCount
           \/ loans[l].approved
           \/ loans[l].disbursed
           \/ balance < loans[l].amount)
              => ~approveLoan(caller, l, accepted)
    /\ \A caller \in Addrs, l \in LoanIds, accepted \in BOOLEAN :
          \A value \in {loans[l].amount, loans[l].amount + 1} :
              (\/ caller # admin
               \/ ~loans[l].approved
               \/ loans[l].disbursed
               \/ value # loans[l].amount)
                  => ~disburseLoan(caller, l, value, accepted)
    /\ \A caller \in Addrs, l \in LoanIds :
          \A value \in {loans[l].totalRepayment, loans[l].totalRepayment + 1} :
              (\/ caller # loans[l].borrower
               \/ ~loans[l].disbursed
               \/ loans[l].repaid
               \/ value # loans[l].totalRepayment)
                  => ~repayLoan(caller, l, value)
    /\ \A caller \in Addrs, l \in LoanIds :
          (\/ caller # admin
           \/ ~loans[l].disbursed
           \/ loans[l].repaid
           \/ now <= loans[l].dueDate + 14 * days)
              => ~penalizeDefault(caller, l)

C3_AdminCalls ==
    /\ \A caller \in Addrs, value \in {0, 10 * ether} :
          (caller # admin \/ value = 0) => ~depositLiquidity(caller, value)
    /\ \A caller \in Addrs, amount \in {0, 10 * ether}, accepted \in BOOLEAN :
          (caller # admin \/ amount = 0 \/ balance < amount)
              => ~withdraw(caller, amount, accepted)
    /\ \A caller \in Addrs, user \in Addrs :
          caller # admin => ~unfreezeAccount(caller, user)
    /\ \A caller \in Addrs, newAdmin \in Addrs \cup {NullAddr} :
          (caller # admin \/ newAdmin = NullAddr) => ~transferAdmin(caller, newAdmin)
    /\ \A caller \in Addrs, enabled \in BOOLEAN :
          caller # admin => ~setDemoMode(caller, enabled)
    /\ \A caller \in Addrs, duration \in {INITIAL_DEMO_DURATION, 1 * days} :
          caller # admin => ~setDemoLoanDuration(caller, duration)

C3_RejectedCallChangesNothing ==
    [][Changed => (C3_CircleCalls /\ C3_LoanCalls /\ C3_AdminCalls)]_vars

\* Guards of every kind fail here: the deployer is no longer the admin, a loan is
\* disbursed and unpaid before its due date, its borrower has an active loan,
\* and the balance is below the deposit the admin could withdraw.
C3_Witness ==
    /\ admin # Deployer
    /\ balance < 10 * ether
    /\ \E l \in LoanIds :
          /\ Outstanding(l)
          /\ now < loans[l].dueDate
          /\ members[loans[l].borrower].hasActiveLoan

\* C4: penalizeDefault succeeds at most once per loan: a call on a loan already
\* penalized is rejected and changes no score.
C4_PenalizedOnce ==
    [][Changed =>
          \A caller \in Addrs, l \in LoanIds :
              l \in penalized => ~penalizeDefault(caller, l)]_vars

\* C5: penalizeDefault changes the state only when called by the admin on a
\* disbursed, unpaid loan with now > dueDate + 14 days; it then takes 50 (floor 0)
\* from the defaulter's score, freezes the defaulter, and takes 20 (floor 0)
\* from the score of every other member of the defaulter's circle.
C5_Step ==
    \A caller \in Addrs, l \in LoanIds :
        penalizeDefault(caller, l) =>
            LET b == loans[l].borrower
            IN  /\ caller = admin
                /\ loans[l].disbursed
                /\ ~loans[l].repaid
                /\ now > loans[l].dueDate + 14 * days
                /\ members'[b].individualScore = Max0(members[b].individualScore - 50)
                /\ ~members'[b].isActive
                /\ \A a \in Addrs \ {b} :
                      members[a].circleId = members[b].circleId =>
                          members'[a].individualScore
                              = Max0(members[a].individualScore - 20)

C5_PenalizeDefault == [][Changed => C5_Step]_vars

\* A loan has been penalized after its grace period by an admin who is not the
\* deployer: the defaulter is frozen at score 0 and a peer is at 30.
C5_Witness ==
    \E l \in penalized :
        /\ admin # Deployer
        /\ now > loans[l].dueDate + 14 * days
        /\ members[loans[l].borrower].individualScore = 0
        /\ ~members[loans[l].borrower].isActive
        /\ \E a \in Addrs \ {loans[l].borrower} :
              /\ members[a].circleId = members[loans[l].borrower].circleId
              /\ members[a].individualScore = 30

\* C6: both entry paths into Disbursed are reachable: (a) approveLoan approving
\* and disbursing in one step, and (b) a state in which a loan is approved but
\* not yet disbursed, from which the admin's disburseLoan with the exact
\* principal succeeds with the effects of approveLoan's disbursement half.
C6_PathA ==
    \E l \in LoanIds :
        loans[l].approved /\ loans[l].disbursed
            /\ loans[l].approvalTime = loans[l].disbursementTime

C6_PathB == \E l \in LoanIds : loans[l].approved /\ ~loans[l].disbursed

C6_BothPathsReachable == <>C6_PathA /\ <>C6_PathB

\* Path (a) alone is taken by every behaviour in which the contract stays in use.
C6_PathATaken == <>C6_PathA

\* No reachable state holds a loan that is approved and not disbursed, so no call
\* of disburseLoan passes its guard.
C6_NeverApprovedUndisbursed ==
    /\ \A l \in LoanIds : loans[l].approved <=> loans[l].disbursed
    /\ \A caller \in Addrs, l \in LoanIds, value \in AnyAmount :
          ~disburseLoanGuard(caller, l, value)

\* The sum of the principals of the disbursed loans 1..l of borrower a.
RECURSIVE DisbursedTo(_, _)
DisbursedTo(a, l) ==
    IF l = 0 THEN 0
    ELSE (IF loans[l].borrower = a /\ loans[l].disbursed THEN loans[l].amount ELSE 0)
         + DisbursedTo(a, l - 1)

\* C7: each loan is disbursed at most once: its principal has been sent to the
\* borrower once if the loan is disbursed and never otherwise, and a borrower's
\* totalBorrowed is the sum of the principals of that borrower's disbursed loans.
C7_DisbursedOnce ==
    /\ \A l \in LoanIds :
          /\ paidOut[l] <= 1
          /\ (paidOut[l] = 1) <=> loans[l].disbursed
    /\ \A a \in Addrs : members[a].totalBorrowed = DisbursedTo(a, MaxLoans)

\* Two loans are disbursed, one of them already repaid, each paid out once.
C7_Witness ==
    \E l1, l2 \in LoanIds :
        /\ l1 # l2
        /\ loans[l1].disbursed /\ loans[l1].repaid /\ paidOut[l1] = 1
        /\ loans[l2].disbursed /\ ~loans[l2].repaid /\ paidOut[l2] = 1

\* C8: requestLoan succeeds if and only if the caller is not frozen, belongs to
\* an active circle, has no active loan, amount > 0, the purpose is not empty and
\* amount <= the maximum loan of the caller's trust score in the current state;
\* on success exactly one new loan, in the Requested state, is created for the
\* caller and the caller's hasActiveLoan becomes true.
C8_Guards(caller, amount, purpose) ==
    /\ members[caller].isActive
    /\ members[caller].circleId # 0
    /\ circles[members[caller].circleId].isActive
    /\ ~members[caller].hasActiveLoan
    /\ amount > 0
    /\ purpose # ""
    /\ amount <= getMaxLoanAmount(circles, members, caller)

C8_Created(caller, amount, purpose) ==
    /\ loanCount' = loanCount + 1
    /\ loans'[loanCount'].borrower = caller
    /\ loans'[loanCount'].amount = amount
    /\ loans'[loanCount'].purpose = purpose
    /\ ~loans'[loanCount'].approved
    /\ ~loans'[loanCount'].disbursed
    /\ ~loans'[loanCount'].repaid
    /\ \A l \in LoanIds \ {loanCount'} : loans'[l] = loans[l]
    /\ members'[caller].hasActiveLoan

C8_OnlyIf ==
    \A caller \in Addrs, amount \in AnyAmount, purpose \in AnyText :
        requestLoan(caller, amount, purpose) =>
            C8_Guards(caller, amount, purpose) /\ C8_Created(caller, amount, purpose)

C8_If ==
    \A caller \in Addrs, amount \in AnyAmount, purpose \in AnyText :
        C8_Guards(caller, amount, purpose) /\ loanCount < MaxLoans =>
            ENABLED (requestLoan(caller, amount, purpose) /\ loanCount' = loanCount + 1)

C8_RequestLoan == []C8_If /\ [][Changed => C8_OnlyIf]_vars

\* A frozen member without an active loan sits in an active circle while a
\* peer's request waits for approval.
C8_Witness ==
    \E a, b \in Addrs :
        /\ a # b
        /\ members[a].circleId # 0
        /\ circles[members[a].circleId].isActive
        /\ ~members[a].isActive
        /\ ~members[a].hasActiveLoan
        /\ members[b].hasActiveLoan
        /\ \E l \in LoanIds : loans[l].borrower = b /\ ~loans[l].approved

\* C9: a loan's borrower, principal, interest amount, total repayment and purpose
\* are fixed when requestLoan creates it, the interest and the total computed
\* from the borrower's trust score at that time, and no later step changes them;
\* no loan record is ever deleted.
C9_Step ==
    /\ loanCount' >= loanCount
    /\ \A l \in LoanIds :
          l <= loanCount =>
              /\ loans'[l].borrower = loans[l].borrower
              /\ loans'[l].borrower # NullAddr
              /\ loans'[l].amount = loans[l].amount
              /\ loans'[l].interestAmount = loans[l].interestAmount
              /\ loans'[l].totalRepayment = loans[l].totalRepayment
              /\ loans'[l].purpose = loans[l].purpose
    /\ loanCount' > loanCount =>
          LET new == loans'[loanCount']
          IN  /\ loanCount' = loanCount + 1
              /\ new.interestAmount
                    = (new.amount * getInterestRate(circles, members, new.borrower)) \div 100
              /\ new.totalRepayment = new.amount + new.interestAmount

C9_LoanTermsFixed == [][Changed => C9_Step]_vars

\* An unpaid loan carries an interest that is no longer the one the borrower's
\* present trust score would give.
C9_Witness ==
    \E l \in LoanIds :
        /\ l <= loanCount
        /\ loans[l].disbursed
        /\ ~loans[l].repaid
        /\ loans[l].interestAmount
              # (loans[l].amount * getInterestRate(circles, members, loans[l].borrower))
                    \div 100

\* C10: a successful approveLoan is one step after which the loan is approved and
\* disbursed, approval time = disbursement time = now, due date = now + the loan
\* duration in force, the balance is lower by the principal and the borrower's
\* totalBorrowed higher by the principal; no state shows only some of these.
C10_Step ==
    \A caller \in Addrs, l \in LoanIds, accepted \in BOOLEAN :
        approveLoan(caller, l, accepted) =>
            /\ ~loans[l].approved /\ ~loans[l].disbursed
            /\ loans'[l].approved /\ loans'[l].disbursed
            /\ loans'[l].approvalTime = now
            /\ loans'[l].disbursementTime = now
            /\ loans'[l].dueDate
                  = now + (IF isDemoMode THEN demoLoanDuration ELSE 7 * days)
            /\ balance' = balance - loans[l].amount
            /\ members'[loans[l].borrower].totalBorrowed
                  = members[loans[l].borrower].totalBorrowed + loans[l].amount

C10_Whole ==
    \A l \in LoanIds :
        /\ loans[l].approved <=> loans[l].disbursed
        /\ loans[l].approved <=> paidOut[l] = 1
        /\ loans[l].approved =>
              /\ loans[l].approvalTime = loans[l].disbursementTime
              /\ loans[l].approvalTime >= StartTime
              /\ loans[l].dueDate > loans[l].disbursementTime
              /\ members[loans[l].borrower].totalBorrowed >= loans[l].amount
        /\ ~loans[l].approved =>
              /\ loans[l].approvalTime = 0
              /\ loans[l].disbursementTime = 0
              /\ loans[l].dueDate = 0

C10_ApproveAtomic == []C10_Whole /\ [][Changed => C10_Step]_vars

\* A loan approved in demo mode is due one demo duration after its approval,
\* and the demo mode has since been switched off.
C10_Witness ==
    \E l \in LoanIds :
        /\ loans[l].approved
        /\ loans[l].disbursed
        /\ loans[l].dueDate = loans[l].approvalTime + demoLoanDuration
        /\ demoLoanDuration # 7 * days
        /\ ~isDemoMode

\* C11: the pool is never overcommitted: the balance is >= 0 in every reachable
\* state, approveLoan is rejected whenever the balance is less than the loan's
\* principal and withdraw whenever the balance is less than the amount asked,
\* both leaving the balance (and everything else) unchanged.
C11_Step ==
    /\ \A caller \in Addrs, l \in LoanIds, accepted \in BOOLEAN :
          balance < loans[l].amount => ~approveLoan(caller, l, accepted)
    /\ \A caller \in Addrs, amount \in AnyAmount, accepted \in BOOLEAN :
          balance < amount => ~withdraw(caller, amount, accepted)

C11_NeverOvercommitted == [](balance >= 0) /\ [][Changed => C11_Step]_vars

\* A requested loan whose principal the balance does not cover waits for
\* approval next to a balance too small for the withdrawal amount.
C11_Witness ==
    \E l \in LoanIds :
        /\ loans[l].borrower # NullAddr
        /\ ~loans[l].approved
        /\ balance > 0
        /\ balance < loans[l].amount
        /\ balance < 10 * ether

\* C12: repayLoan succeeds if and only if the caller is the loan's borrower, the
\* loan is disbursed and not repaid, and the payment equals totalRepayment
\* exactly; on success the loan is repaid with its repayment time set, the
\* borrower's totalRepaid grows by totalRepayment, loansCompleted by 1, and
\* hasActiveLoan becomes false.
C12_Guards(caller, l, value) ==
    /\ loans[l].borrower = caller
    /\ loans[l].disbursed
    /\ ~loans[l].repaid
    /\ value = loans[l].totalRepayment

C12_Repaid(caller, l) ==
    /\ loans'[l].repaid
    /\ loans'[l].repaymentTime = now
    /\ members'[caller].totalRepaid = members[caller].totalRepaid + loans[l].totalRepayment
    /\ members'[caller].loansCompleted = members[caller].loansCompleted + 1
    /\ ~members'[caller].hasActiveLoan

C12_Payments(l) ==
    {loans[l].amount, loans[l].totalRepayment - 1, loans[l].totalRepayment,
     loans[l].totalRepayment + 1}

C12_OnlyIf ==
    \A caller \in Addrs, l \in LoanIds :
        \A value \in C12_Payments(l) :
            repayLoan(caller, l, value) => C12_Guards(caller, l, value) /\ C12_Repaid(caller, l)

C12_If ==
    \A caller \in Addrs, l \in LoanIds :
        \A value \in C12_Payments(l) :
            C12_Guards(caller, l, value) =>
                ENABLED (repayLoan(caller, l, value) /\ loans'[l].repaid)

C12_RepayLoan == []C12_If /\ [][Changed => C12_OnlyIf]_vars

\* A loan carrying interest has been repaid and its borrower is free to borrow
\* again.
C12_Witness ==
    \E l \in LoanIds :
        /\ loans[l].repaid
        /\ loans[l].totalRepayment > loans[l].amount
        /\ members[loans[l].borrower].totalRepaid >= loans[l].totalRepayment
        /\ members[loans[l].borrower].loansCompleted >= 1
        /\ ~members[loans[l].borrower].hasActiveLoan

\* C13: a successful repayLoan at time t of a loan due at D sets the borrower's
\* individualScore to min(100, old + b), where b = 15 if t < D, 10 if
\* D <= t <= D + 3 days, 5 if D + 3 days < t <= D + 7 days, and 0 if
\* t > D + 7 days.
C13_Bonus(D, t) ==
    IF t < D THEN 15
    ELSE IF t <= D + 3 * days THEN 10
    ELSE IF t <= D + 7 * days THEN 5
    ELSE 0

C13_Step ==
    \A caller \in Addrs, l \in LoanIds :
        repayLoan(caller, l, loans[l].totalRepayment) =>
            members'[caller].individualScore
                = Min100(members[caller].individualScore + C13_Bonus(loans[l].dueDate, now))

C13_Saturated ==
    \E a \in Addrs : members[a].individualScore = 100 /\ members[a].loansCompleted = 4

\* C14: a circle's active flag is false while the circle has fewer than 3
\* members, becomes true in exactly the joinCircle step that takes the number
\* of members from 2 to 3, and is never false again.
C14_TiedToMembership ==
    \A c \in CircleIds :
        circles[c].isActive <=> Len(circles[c].members) >= 3

C14_Step ==
    \A c \in CircleIds :
        /\ circles[c].isActive => circles'[c].isActive
        /\ ~circles[c].isActive /\ circles'[c].isActive =>
              /\ Len(circles[c].members) = 2
              /\ Len(circles'[c].members) = 3
              /\ \E caller \in Accounts, value \in AnyStake : joinCircle(caller, c, value)

C14_ActiveMonotonic == []C14_TiedToMembership /\ [][C14_Step]_vars

\* One circle is active with more than 3 members and a loan paid out in it, the
\* other has 2 members and is not active.
C14_Witness ==
    \E c1, c2 \in CircleIds :
        /\ circles[c1].isActive
        /\ Len(circles[c1].members) > 3
        /\ \E l \in LoanIds : loans[l].disbursed
        /\ ~circles[c2].isActive
        /\ Len(circles[c2].members) = 2

\* The circles whose member list holds address a.
CirclesOf(a) ==
    {c \in CircleIds : \E i \in 1 .. Len(circles[c].members) : circles[c].members[i] = a}

\* C15: each circle has at most 10 members and lists no address twice, and each
\* address is listed by at most one circle; joinCircle and createCircle are
\* rejected for a caller already in a circle, and joinCircle is rejected for a
\* circle that does not exist, a circle that has 10 members, or a stake below
\* the minimum.
C15_Membership ==
    /\ \A c \in CircleIds :
          /\ Len(circles[c].members) <= 10
          /\ \A i, j \in 1 .. Len(circles[c].members) :
                i # j => circles[c].members[i] # circles[c].members[j]
    /\ \A a \in Accounts : Cardinality(CirclesOf(a)) <= 1

C15_Step ==
    \A caller \in Accounts, value \in AnyStake :
        /\ \A name \in AnyText :
              CirclesOf(caller) # {} => ~createCircle(caller, name, value)
        /\ \A c \in 1 .. MaxCircles + 1 :
              \/ CirclesOf(caller) # {}
              \/ c > circleCount
              \/ Len(circles[c].members) = 10
              \/ value < MIN_STAKE
              => ~joinCircle(caller, c, value)

C15_CircleMembership == []C15_Membership /\ [][Changed => C15_Step]_vars

\* One circle is full, the other exists, and an address is still in no circle.
C15_Witness ==
    \E c1, c2 \in CircleIds :
        /\ c1 # c2
        /\ Len(circles[c1].members) = 10
        /\ circleExists[c2]
        /\ \E a \in Accounts : a > 2 /\ CirclesOf(a) = {}

\* C16: createCircle succeeds if and only if the stake is >= MIN_STAKE, the
\* creator is in no circle and the name is not empty; on success a circle with a
\* fresh id exists whose only member is the creator, whose total stake is the
\* stake paid and which is not active, and the creator's record has score 50,
\* isActive true, hasActiveLoan false and zeroed loan counters.
C16_Guards(caller, name, value) ==
    /\ value >= MIN_STAKE
    /\ CirclesOf(caller) = {}
    /\ name # ""

C16_Created(caller, name, value) ==
    LET c == circleCount'
    IN  /\ c = circleCount + 1
        /\ ~circleExists[c]
        /\ circleExists'[c]
        /\ circles'[c].members = << caller >>
        /\ circles'[c].totalStake = value
        /\ ~circles'[c].isActive
        /\ \A d \in CircleIds \ {c} : circles'[d] = circles[d]
        /\ members'[caller].circleId = c
        /\ members'[caller].individualScore = 50
        /\ members'[caller].isActive
        /\ ~members'[caller].hasActiveLoan
        /\ members'[caller].totalBorrowed = 0
        /\ members'[caller].totalRepaid = 0
        /\ members'[caller].loansCompleted = 0

C16_OnlyIf ==
    \A caller \in Addrs, name \in AnyText, value \in AnyStake :
        createCircle(caller, name, value) =>
            C16_Guards(caller, name, value) /\ C16_Created(caller, name, value)

C16_If ==
    \A caller \in Addrs, name \in AnyText, value \in AnyStake :
        C16_Guards(caller, name, value) /\ circleCount < MaxCircles =>
            ENABLED (createCircle(caller, name, value) /\ circleCount' = circleCount + 1)

C16_CreateCircle == []C16_If /\ [][Changed => C16_OnlyIf]_vars

\* A second circle has been created beside an active first one and holds only
\* its creator.
C16_Witness ==
    \E a \in Addrs :
        /\ circleCount = 2
        /\ circles[1].isActive
        /\ circles[2].members = << a >>
        /\ circles[2].name = "circle"
        /\ ~circles[2].isActive
        /\ members[a].circleId = 2
        /\ members[a].individualScore = 50

\* C17: for every address, trustScore equals the stored individualScore
\* unmodified whenever the address has no circle or its circle is not active,
\* an address that never joined a circle and a stored score of 0 included.
C17_TrustIsStoredScore ==
    \A a \in Accounts :
        (members[a].circleId = 0 \/ ~circles[members[a].circleId].isActive) =>
            getTrustScore(circles, members, a) = members[a].individualScore

\* C18: for every member of an active circle, trustScore is
\* floor((individualScore * 60 + circleAverage * 40) / 100) with the member's
\* stored individualScore, for all stored scores in 0..100.
C18_WeightedBlend ==
    \A a \in Accounts :
        (members[a].circleId # 0 /\ circles[members[a].circleId].isActive) =>
            getTrustScore(circles, members, a)
                = (members[a].individualScore * 60
                   + getCircleAverageScore(circles, members, members[a].circleId) * 40)
                  \div 100

\* C19: circleAverage of a circle is the floor of the arithmetic mean, over its
\* current members, of each member's individualScore with a stored score of 0
\* counted as 50; it is 50 for a circle with zero members, and it always lies
\* in 1..100.
C19_Counted(a) == IF members[a].individualScore = 0 THEN 50 ELSE members[a].individualScore

RECURSIVE C19_Total(_)
C19_Total(S) ==
    IF S = {} THEN 0
    ELSE LET a == CHOOSE x \in S : TRUE
         IN  C19_Counted(a) + C19_Total(S \ {a})

C19_CircleAverage ==
    \A c \in CircleIds :
        LET S == {a \in Accounts : members[a].circleId = c}
            n == Cardinality(S)
            average == getCircleAverageScore(circles, members, c)
        IN  /\ n = 0 => average = 50
            /\ n > 0 =>
                  /\ average * n <= C19_Total(S)
                  /\ C19_Total(S) < (average + 1) * n
            /\ average \in 1 .. 100

\* A circle holds a member whose stored score is 0 and peers above 0, its mean
\* is no whole number, and the other circle id has no member.
C19_Witness ==
    \E c, d \in CircleIds :
        LET S == {a \in Accounts : members[a].circleId = c}
        IN  /\ \E a \in S : members[a].individualScore = 0
            /\ \E a \in S : members[a].individualScore > 0
            /\ C19_Total(S) % Cardinality(S) # 0
            /\ Len(circles[d].members) = 0

\* C20: maxLoanAmount and interestRate are functions of the member's current
\* trust score s alone: s < 60 gives (10 ether, 6%), 60 <= s <= 69 (20, 4%),
\* 70 <= s <= 79 (50, 4%), 80 <= s <= 89 (100, 2%), s >= 90 (200, 2%); so the
\* maximum loan never decreases and the interest rate never increases in s.
C20_MaxLoan(s) ==
    IF s < 60 THEN 10
    ELSE IF 60 <= s /\ s <= 69 THEN 20
    ELSE IF 70 <= s /\ s <= 79 THEN 50
    ELSE IF 80 <= s /\ s <= 89 THEN 100
    ELSE 200

C20_Rate(s) ==
    IF s < 60 THEN 6
    ELSE IF 60 <= s /\ s <= 79 THEN 4
    ELSE 2

C20_Tiers ==
    /\ \A a \in Accounts :
          LET s == getTrustScore(circles, members, a)
          IN  /\ getMaxLoanAmount(circles, members, a) = C20_MaxLoan(s) * ether
              /\ getInterestRate(circles, members, a) = C20_Rate(s)
    /\ \A a, b \in Accounts :
          getTrustScore(circles, members, a) <= getTrustScore(circles, members, b) =>
              /\ getMaxLoanAmount(circles, members, a) <= getMaxLoanAmount(circles, members, b)
              /\ getInterestRate(circles, members, a) >= getInterestRate(circles, members, b)

\* Four addresses stand in four tiers at once, two of them on a tier's lowest
\* score.
C20_Witness ==
    \E a, b, c, d \in Accounts :
        /\ getTrustScore(circles, members, a) = 90
        /\ getTrustScore(circles, members, b) \in 70 .. 79
        /\ getTrustScore(circles, members, c) = 60
        /\ getTrustScore(circles, members, d) < 60

\* The tier 80..89 is reached as well.
C20_FourthTier == \E a \in Accounts : getTrustScore(circles, members, a) \in 80 .. 89

\* C21: every loan created by requestLoan has interestAmount =
\* floor(amount * rate / 100), rate being the borrower's tier rate at the time
\* of the request, and totalRepayment = amount + interestAmount; amount 100 at
\* 6% gives interest 6 and total 106, amount 10 at 6% interest 0 and total 10.
C21_Step ==
    loanCount' > loanCount =>
        LET new == loans'[loanCount']
            rate == C20_Rate(getTrustScore(circles, members, new.borrower))
        IN  /\ new.interestAmount * 100 <= new.amount * rate
            /\ new.amount * rate < (new.interestAmount + 1) * 100
            /\ new.totalRepayment = new.amount + new.interestAmount
            /\ (new.amount = 100 /\ rate = 6) =>
                  (new.interestAmount = 6 /\ new.totalRepayment = 106)
            /\ (new.amount = 10 /\ rate = 6) =>
                  (new.interestAmount = 0 /\ new.totalRepayment = 10)

C21_Stored ==
    \A l \in LoanIds :
        /\ loans[l].totalRepayment = loans[l].amount + loans[l].interestAmount
        /\ \E rate \in {2, 4, 6} :
              /\ loans[l].interestAmount * 100 <= loans[l].amount * rate
              /\ loans[l].amount * rate < (loans[l].interestAmount + 1) * 100

C21_Interest == []C21_Stored /\ [][C21_Step]_vars

\* Loans of 10 and of 100 were requested at 6% and one of 101 at 4%.
C21_Witness ==
    \E l1, l2, l3 \in LoanIds :
        /\ loans[l1].amount = 10 /\ loans[l1].interestAmount = 0
        /\ loans[l1].totalRepayment = 10
        /\ loans[l2].amount = 100 /\ loans[l2].interestAmount = 6
        /\ loans[l2].totalRepayment = 106
        /\ loans[l3].amount = 101 /\ loans[l3].interestAmount = 4
        /\ loans[l3].totalRepayment = 105

\* C22: every admin-only operation (approveLoan, disburseLoan, penalizeDefault,
\* depositLiquidity, withdraw, unfreezeAccount, transferAdmin, setDemoMode,
\* setDemoLoanDuration) called by an address that is not the current admin is
\* rejected, and repayLoan called by anyone but the loan's borrower is
\* rejected; the state is unchanged in each case.
C22_AdminOnly(caller) ==
    /\ \A l \in LoanIds, accepted \in BOOLEAN :
          /\ ~approveLoan(caller, l, accepted)
          /\ ~disburseLoan(caller, l, loans[l].amount, accepted)
    /\ \A l \in LoanIds : ~penalizeDefault(caller, l)
    /\ \A value \in {ether, 10 * ether} : ~depositLiquidity(caller, value)
    /\ \A amount \in {ether, 10 * ether}, accepted \in BOOLEAN :
          ~withdraw(caller, amount, accepted)
    /\ \A user \in Addrs : ~unfreezeAccount(caller, user)
    /\ \A newAdmin \in Addrs : ~transferAdmin(caller, newAdmin)
    /\ \A enabled \in BOOLEAN : ~setDemoMode(caller, enabled)
    /\ \A duration \in {INITIAL_DEMO_DURATION, 1 * days} :
          ~setDemoLoanDuration(caller, duration)

C22_Step ==
    /\ \A caller \in Addrs : caller # admin => C22_AdminOnly(caller)
    /\ \A caller \in Addrs, l \in LoanIds :
          caller # loans[l].borrower =>
              \A value \in C12_Payments(l) : ~repayLoan(caller, l, value)

C22_Unauthorized == [][Changed => C22_Step]_vars

\* The deployer is no longer the admin, and a borrower frozen by the new admin
\* still owes a loan.
C22_Witness ==
    \E l \in LoanIds :
        /\ admin # Deployer
        /\ l \in penalized
        /\ Outstanding(l)
        /\ ~members[loans[l].borrower].isActive

\* C23: the balance read by the disbursement guard changes only through a
\* deposit by the admin (up by the amount), a withdrawal by the admin (down by
\* the amount) and the disbursement of a loan (down by the principal); every
\* other operation leaves it unchanged, and the stakes paid in createCircle and
\* joinCircle never become funds for disbursement or withdrawal.
C23_Step ==
    balance' # balance =>
        \/ \E value \in AnyAmount :
              depositLiquidity(admin, value) /\ balance' = balance + value
        \/ \E amount \in AnyAmount :
              withdraw(admin, amount, TRUE) /\ balance' = balance - amount
        \/ \E l \in LoanIds :
              /\ approveLoan(admin, l, TRUE) \/ disburseLoan(admin, l, loans[l].amount, TRUE)
              /\ balance' = balance - loans[l].amount

C23_GuardedCounter == [][C23_Step]_vars

\* A loan has been paid out of a balance that holds nothing but stakes.
C23_StakesLent ==
    \E l \in LoanIds :
        /\ loans[l].disbursed
        /\ balance + loans[l].amount = circles[1].totalStake

\* C24: after its creation a member record is modified only by repayLoan and
\* by penalizeDefault with its cascade; no other operation changes a field of
\* an existing member.
C24_ByRepayment(a) ==
    \E l \in LoanIds : loans[l].borrower = a /\ ~loans[l].repaid /\ loans'[l].repaid

C24_ByDefault(a) ==
    \E l \in LoanIds :
        /\ penalizeDefault(admin, l)
        /\ members[loans[l].borrower].circleId = members[a].circleId

C24_OnlyRepaymentOrDefault ==
    [][\A a \in Addrs :
          (members[a].circleId # 0 /\ members'[a] # members[a])
              => (C24_ByRepayment(a) \/ C24_ByDefault(a))]_vars

\* C24 as the contract has it: an existing member record is modified only by
\* requestLoan (hasActiveLoan becomes true), by a disbursement (totalBorrowed
\* grows by the principal), by repayLoan, by penalizeDefault with its cascade
\* and by unfreezeAccount (isActive becomes true); its circle and its stake are
\* never changed, so that no record is deleted or reset.
C24_ByRequest(a) ==
    /\ loanCount' = loanCount + 1
    /\ loans'[loanCount'].borrower = a
    /\ members'[a] = [members[a] EXCEPT !.hasActiveLoan = TRUE]

C24_ByDisbursement(a) ==
    \E l \in LoanIds :
        /\ loans[l].borrower = a
        /\ ~loans[l].disbursed /\ loans'[l].disbursed
        /\ members'[a] = [members[a] EXCEPT !.totalBorrowed = @ + loans[l].amount]

C24_ByUnfreeze(a) ==
    /\ members'[a] = [members[a] EXCEPT !.isActive = TRUE]
    /\ UNCHANGED << loans, loanCount, circles, balance >>

C24_Step ==
    \A a \in Addrs :
        (members[a].circleId # 0 /\ members'[a] # members[a]) =>
            /\ members'[a].circleId = members[a].circleId
            /\ members'[a].trustBond = members[a].trustBond
            /\ \/ C24_ByRequest(a)
               \/ C24_ByDisbursement(a)
               \/ C24_ByRepayment(a)
               \/ C24_ByDefault(a)
               \/ C24_ByUnfreeze(a)

C24_MemberFrame == [][C24_Step]_vars

\* A defaulter unfrozen again, next to a member who has repaid a loan.
C24_Witness ==
    /\ \E l \in penalized : members[loans[l].borrower].isActive
    /\ \E l \in LoanIds : loans[l].repaid

\* C26: the end-to-end scenario is a valid run.  A creates a circle with a
\* stake of at least the minimum, B and C join and the circle becomes active on
\* the third member; A, at score 50 in the lowest tier at 6%, requests a loan of
\* 10 units, giving interest 0 and total repayment 10; the admin approves, which
\* disburses the loan with due date = now + 7 days; A repays exactly 10 one day
\* before the due date and ends with individualScore 65, hasActiveLoan false
\* and loansCompleted 1.
\* A, B and C in the order they enter the circle; the admin is the deployer.
C26_Circle == << 2, 3, 4 >>
C26_A == C26_Circle[1]

C26_CircleFormed ==
    circles[1].members = C26_Circle =>
        /\ circles[1].isActive
        /\ \A a \in {C26_Circle[i] : i \in 1 .. 3} :
              members[a].circleId = 1 /\ members[a].trustBond >= MIN_STAKE

\* The circle with two members only is not active yet.
C26_NotYetFormed == Len(circles[1].members) < MIN_CIRCLE_MEMBERS => ~circles[1].isActive

C26_Request ==
    \A amount \in {10}, purpose \in {"rent"} :
        (/\ circles[1].members = C26_Circle
         /\ loanCount = 0
         /\ requestLoan(C26_A, amount, purpose))
            => /\ getTrustScore(circles, members, C26_A) = 50
               /\ getInterestRate(circles, members, C26_A) = 6
               /\ amount <= getMaxLoanAmount(circles, members, C26_A)
               /\ loanCount' = 1
               /\ loans'[1].borrower = C26_A
               /\ loans'[1].amount = 10
               /\ loans'[1].interestAmount = 0
               /\ loans'[1].totalRepayment = 10
               /\ members'[C26_A].hasActiveLoan

C26_Approve ==
    (/\ loans[1].borrower = C26_A /\ loans[1].amount = 10 /\ ~loans[1].approved
     /\ balance >= 10
     /\ approveLoan(admin, 1, TRUE))
        => /\ loans'[1].approved /\ loans'[1].disbursed
           /\ loans'[1].dueDate = now + 7 * days
           /\ balance' = balance - 10
           /\ paidOut'[1] = 1

C26_Repay ==
    (/\ loans[1].borrower = C26_A /\ loans[1].amount = 10
     /\ loans[1].disbursed /\ ~loans[1].repaid
     /\ members[C26_A].individualScore = 50
     /\ now = loans[1].dueDate - 1 * days
     /\ repayLoan(C26_A, 1, 10))
        => /\ loans'[1].repaid
           /\ members'[C26_A].individualScore = 65
           /\ ~members'[C26_A].hasActiveLoan
           /\ members'[C26_A].loansCompleted = 1

C27_Ordered ==
    \A l \in LoanIds :
        /\ loans[l].repaid => loans[l].disbursed
        /\ loans[l].disbursed => loans[l].approved
        /\ loans[l].approved => loans[l].borrower # NullAddr

C27_Forward ==
    \A l \in LoanIds :
        /\ loans[l].borrower # NullAddr => loans'[l].borrower = loans[l].borrower
        /\ loans[l].approved => loans'[l].approved
        /\ loans[l].disbursed => loans'[l].disbursed
        /\ loans[l].repaid => loans'[l].repaid

C27_RepaidIsFinal ==
    \A l \in LoanIds, caller \in Addrs :
        (loans[l].repaid /\ penalizeDefault(caller, l)) => UNCHANGED vars

C27_LoanLifecycle ==
    /\ []C27_Ordered
    /\ [][Changed => (C27_Forward /\ C27_RepaidIsFinal)]_vars

\* A repaid loan past the grace period of the default penalty, next to a loan
\* that was penalized.
C27_Witness ==
    /\ \E l \in LoanIds : loans[l].repaid /\ now > loans[l].dueDate + DEFAULT_GRACE
    /\ \E l \in penalized : ~loans[l].repaid

\* C28: the due date of a loan is set exactly once, at disbursement, to the
\* time of disbursement plus the loan duration in force at that moment (7 days,
\* or the configured demo duration while the demo mode is on); a later change
\* of the settings never alters it, and it is zero for every loan that is not
\* disbursed.
C28_InForce == IF isDemoMode THEN demoLoanDuration ELSE 7 * days

C28_Step ==
    \A l \in LoanIds :
        /\ (~loans[l].disbursed /\ loans'[l].disbursed)
              => /\ loans'[l].disbursementTime = now
                 /\ loans'[l].dueDate = now + C28_InForce
        /\ loans[l].disbursed => loans'[l].dueDate = loans[l].dueDate
        /\ loans'[l].dueDate # loans[l].dueDate
              => (~loans[l].disbursed /\ loans'[l].disbursed)

C28_Unset ==
    \A l \in LoanIds :
        IF loans[l].disbursed
        THEN loans[l].dueDate > loans[l].disbursementTime
        ELSE loans[l].dueDate = 0

C28_DueDate == []C28_Unset /\ [][Changed => C28_Step]_vars

\* A loan disbursed at the initial demo duration, kept after the demo mode was
\* switched off and the demo duration reconfigured.
C28_Witness ==
    \E l \in LoanIds :
        /\ loans[l].disbursed
        /\ loans[l].dueDate = loans[l].disbursementTime + INITIAL_DEMO_DURATION
        /\ ~isDemoMode
        /\ demoLoanDuration # INITIAL_DEMO_DURATION

\* A loan disbursed at the default duration of 7 days.
C28_Default ==
    \E l \in LoanIds :
        /\ loans[l].disbursed
        /\ loans[l].dueDate = loans[l].disbursementTime + 7 * days
        /\ isDemoMode

\* C29: penalizeDefault touches only the scores of the defaulter's circle and
\* the defaulter's active flag: the peers are not frozen and keep every other
\* field, the defaulter receives the 50-point slash only and not the 20-point
\* cascade, the members of every other circle are unchanged, and no loan
\* field and no balance changes.
C29_Penalized(l) ==
    LET d == loans[l].borrower
        c == members[d].circleId
    IN  /\ members'[d] = [members[d] EXCEPT
                              !.individualScore = Max0(@ - DEFAULT_PENALTY),
                              !.isActive = FALSE]
        /\ \A a \in Accounts \ {d} :
              members'[a] =
                  IF c # 0 /\ members[a].circleId = c
                  THEN [members[a] EXCEPT
                           !.individualScore = Max0(@ - CIRCLE_DEFAULT_PENALTY)]
                  ELSE members[a]
        /\ UNCHANGED << admin, circleCount, loanCount, isDemoMode, demoLoanDuration,
                        circles, loans, userLoans, circleExists, balance, now, paidOut >>

C29_Step ==
    \A l \in LoanIds :
        (penalizeDefaultGuard(admin, l) /\ penalizeDefault(admin, l)) => C29_Penalized(l)

C29_DefaultFrame == [][Changed => C29_Step]_vars

\* A defaulter slashed from 65 to 15 and frozen, the peers at 30 and still
\* active, and a member of another circle untouched.
C29_Witness ==
    \E l \in penalized :
        LET d == loans[l].borrower
        IN  /\ members[d].individualScore = 15 /\ ~members[d].isActive
            /\ \E a \in Addrs \ {d} :
                  /\ members[a].circleId = members[d].circleId
                  /\ members[a].individualScore = 30 /\ members[a].isActive
            /\ \E a \in Addrs :
                  /\ members[a].circleId \notin {0, members[d].circleId}
                  /\ members[a].individualScore = STARTING_SCORE

\* C30: a default penalty never improves anyone's credit standing: on every
\* successful penalizeDefault the trust score and the maximum loan amount of
\* the defaulter and of every peer of the defaulter's circle are at most what
\* they were before the call, also when a stored score is driven to 0.
C30_Step ==
    \A l \in LoanIds :
        (penalizeDefaultGuard(admin, l) /\ penalizeDefault(admin, l)) =>
            \A a \in Addrs :
                (\/ a = loans[l].borrower
                 \/ /\ members[a].circleId # 0
                    /\ members[a].circleId = members[loans[l].borrower].circleId)
                    => /\ getTrustScore(circles', members', a)
                            <= getTrustScore(circles, members, a)
                       /\ getMaxLoanAmount(circles', members', a)
                            <= getMaxLoanAmount(circles, members, a)

C30_NeverImproves == [][Changed => C30_Step]_vars

\* C31: isLoanOverdue is a pure function of the stored loan and the clock,
\* equal to (disbursed and not repaid and now > dueDate), with no stored flag;
\* whenever the guard of penalizeDefault holds for a loan (disbursed, unpaid,
\* now > dueDate + 14 days) the loan is overdue, and isLoanOverdue is false for
\* every repaid or undisbursed loan.
C31_Derived ==
    \A l \in LoanIds :
        /\ isLoanOverdue(l)
              <=> (loans[l].disbursed /\ ~loans[l].repaid /\ now > loans[l].dueDate)
        /\ (loans[l].disbursed /\ ~loans[l].repaid
              /\ now > loans[l].dueDate + 14 * days) => isLoanOverdue(l)
        /\ penalizeDefaultGuard(admin, l) => isLoanOverdue(l)
        /\ (loans[l].repaid \/ ~loans[l].disbursed) => ~isLoanOverdue(l)

\* The value changes only with what it is computed from: it rises only when
\* the clock advances and falls only when the loan is repaid.
C31_Step ==
    \A l \in LoanIds :
        /\ (loans'[l] = loans[l] /\ now' = now) => (isLoanOverdue(l)' <=> isLoanOverdue(l))
        /\ (~isLoanOverdue(l) /\ isLoanOverdue(l)') => (now' > now /\ loans'[l] = loans[l])
        /\ (isLoanOverdue(l) /\ ~isLoanOverdue(l)') => (loans'[l].repaid /\ now' = now)

C31_Overdue == []C31_Derived /\ [][Changed => C31_Step]_vars

\* A loan open to the default penalty and overdue, next to a loan that is past
\* its due date but repaid or never disbursed, and so not overdue.
C31_Witness ==
    /\ \E l \in LoanIds : penalizeDefaultGuard(admin, l) /\ isLoanOverdue(l)
    /\ \E l \in LoanIds :
          /\ loans[l].borrower # NullAddr
          /\ loans[l].repaid \/ ~loans[l].disbursed
          /\ now > loans[l].dueDate
          /\ ~isLoanOverdue(l)

\* C32: circle membership is append-only: a circle's member list only grows,
\* by appending at the end; the members listed are never removed or reordered,
\* and a member's circle reference, once set, never changes or is cleared.
C32_Step ==
    /\ \A c \in CircleIds :
          LET old == circles[c].members
              new == circles'[c].members
          IN  /\ Len(new) >= Len(old)
              /\ Len(new) <= Len(old) + 1
              /\ SubSeq(new, 1, Len(old)) = old
    /\ \A a \in Accounts :
          members[a].circleId # 0 => members'[a].circleId = members[a].circleId

C32_AppendOnly == [][Changed => C32_Step]_vars

\* Two circles with members, one of them full.
C32_Witness ==
    /\ Len(circles[1].members) = MAX_CIRCLE_SIZE
    /\ Len(circles[2].members) >= 2
    /\ \A c \in CircleIds : \A i \in 1 .. Len(circles[c].members) :
          members[circles[c].members[i]].circleId = c

\* C33: there is exactly one admin at any time; transferAdmin by the admin to a
\* non-null address makes that address the admin, after which every admin-only
\* call by the previous admin is rejected and those by the new admin are
\* authorized; transferAdmin to the null address is rejected and leaves the
\* admin unchanged.
C33_OneAdmin == admin \in Addrs

\* The admin can hand over to every non-null address and passes onlyAdmin.
C33_Authorized ==
    /\ \A newAdmin \in Addrs \ {admin} :
          ENABLED (transferAdmin(admin, newAdmin) /\ admin' = newAdmin)
    /\ ENABLED (setDemoMode(admin, ~isDemoMode) /\ isDemoMode' # isDemoMode)
    /\ \A user \in Addrs :
          ~members[user].isActive
              => ENABLED (unfreezeAccount(admin, user) /\ members'[user].isActive)

C33_Step ==
    /\ admin' # admin =>
          /\ transferAdmin(admin, admin')
          /\ admin' # NullAddr
    /\ \A caller \in Addrs : ~transferAdmin(caller, NullAddr)
    /\ \A caller \in Addrs \ {admin} : C22_AdminOnly(caller)

C33_SingleAdmin ==
    /\ [](C33_OneAdmin /\ C33_Authorized)
    /\ [][Changed => C33_Step]_vars

\* The admin rights were handed over and the demo settings changed.
C33_Witness ==
    /\ admin # Deployer
    /\ isDemoMode
    /\ demoLoanDuration # INITIAL_DEMO_DURATION

\* C34: a member frozen by penalizeDefault is rejected by requestLoan in every
\* later state until the admin calls unfreezeAccount on that member;
\* unfreezeAccount sets only the member's active flag to true and leaves the
\* score, hasActiveLoan, the counters and the circle reference unchanged.
C34_Frozen(a) == members[a].circleId # 0 /\ ~members[a].isActive

C34_Step ==
    \A a \in Addrs :
        /\ C34_Frozen(a) =>
              /\ \A amount \in AnyAmount, purpose \in AnyText :
                    ~requestLoan(a, amount, purpose)
              /\ members'[a].isActive =>
                    /\ unfreezeAccount(admin, a)
                    /\ members'[a] = [members[a] EXCEPT !.isActive = TRUE]
                    /\ \A b \in Accounts \ {a} : members'[b] = members[b]
        /\ (members[a].isActive /\ ~members'[a].isActive) =>
              \E l \in LoanIds : loans[l].borrower = a /\ penalizeDefault(admin, l)
        /\ \A caller \in Addrs :
              unfreezeAccount(caller, a) =>
                  /\ caller = admin
                  /\ members' = [members EXCEPT ![a].isActive = TRUE]
                  /\ UNCHANGED << loans, circles, balance, loanCount, admin >>

C34_FrozenUntilUnfrozen == [][Changed => C34_Step]_vars

\* A defaulter who repaid while frozen and is frozen still, with no loan
\* outstanding.
C34_Witness ==
    \E l \in penalized :
        /\ loans[l].repaid
        /\ C34_Frozen(loans[l].borrower)
        /\ ~members[loans[l].borrower].hasActiveLoan

\* A defaulter unfrozen by the admin: the slashed score, the open loan and the
\* counter of an earlier repayment are as they were.
C34_Unfrozen ==
    \E l \in penalized :
        LET d == loans[l].borrower
        IN  /\ members[d].isActive
            /\ members[d].hasActiveLoan
            /\ members[d].individualScore = 15
            /\ members[d].loansCompleted = 1
            /\ Outstanding(l)

\* C35: in every reachable state a member's hasActiveLoan flag is true exactly
\* when some loan with that member as borrower is not repaid (requested,
\* disbursed, overdue or penalized); the flag stays true after penalizeDefault
\* and after unfreezeAccount until the loan is repaid.
C35_FlagMatchesLoans ==
    \A a \in Accounts : members[a].hasActiveLoan <=> Unrepaid(a) # {}

C35_Step ==
    \A a \in Addrs :
        (members[a].hasActiveLoan /\ Unrepaid(a)' # {}) => members'[a].hasActiveLoan

C35_ActiveLoanFlag == []C35_FlagMatchesLoans /\ [][Changed => C35_Step]_vars

\* A borrower penalized for an unrepaid loan and unfrozen again keeps the flag,
\* next to a member who repaid and has none.
C35_Witness ==
    /\ \E l \in penalized :
          /\ ~loans[l].repaid
          /\ members[loans[l].borrower].isActive
          /\ members[loans[l].borrower].hasActiveLoan
    /\ \E l \in LoanIds :
          /\ loans[l].repaid
          /\ ~members[loans[l].borrower].hasActiveLoan

\* C36: in every reachable state, for each member, the cumulative borrowed
\* amount equals the sum of the principals of that member's disbursed loans,
\* the cumulative repaid amount equals the sum of totalRepayment over that
\* member's repaid loans, and the completed-loan counter equals the number of
\* that member's repaid loans.
RECURSIVE C36_Borrowed(_, _)
C36_Borrowed(a, n) ==
    IF n = 0 THEN 0
    ELSE C36_Borrowed(a, n - 1)
            + IF loans[n].borrower = a /\ loans[n].disbursed THEN loans[n].amount ELSE 0

RECURSIVE C36_Repaid(_, _)
C36_Repaid(a, n) ==
    IF n = 0 THEN 0
    ELSE C36_Repaid(a, n - 1)
            + IF loans[n].borrower = a /\ loans[n].repaid
              THEN loans[n].totalRepayment ELSE 0

C36_Totals ==
    \A a \in Accounts :
        /\ members[a].totalBorrowed = C36_Borrowed(a, MaxLoans)
        /\ members[a].totalRepaid = C36_Repaid(a, MaxLoans)
        /\ members[a].loansCompleted =
              Cardinality({l \in LoanIds : loans[l].borrower = a /\ loans[l].repaid})

\* Two loans repaid, one of them with interest, and a third one disbursed and
\* not repaid.
C36_Witness ==
    \E a \in Addrs, l \in LoanIds :
        /\ loans[l].borrower = a /\ Outstanding(l)
        /\ members[a].loansCompleted = 2
        /\ members[a].totalRepaid > members[a].totalBorrowed - loans[l].amount

\* C37: in every reachable state the membership records are consistent: a
\* member's circle reference is c (non-zero) exactly when the member appears in
\* the member list of circle c, every referenced circle exists, and each
\* circle's total stake equals the sum of the bonds recorded on its members.
RECURSIVE C37_Bonds(_, _)
C37_Bonds(list, n) ==
    IF n = 0 THEN 0 ELSE C37_Bonds(list, n - 1) + members[list[n]].trustBond

C37_Consistent ==
    /\ \A a \in Accounts, c \in CircleIds :
          members[a].circleId = c <=> c \in CirclesOf(a)
    /\ \A a \in Accounts :
          /\ members[a].circleId \in {0} \cup CircleIds
          /\ members[a].circleId # 0 =>
                /\ circleExists[members[a].circleId]
                /\ members[a].circleId <= circleCount
                /\ circles[members[a].circleId].id = members[a].circleId
    /\ \A c \in CircleIds :
          /\ circles[c].totalStake = C37_Bonds(circles[c].members, Len(circles[c].members))
          /\ circles[c].members # << >> => circleExists[c]

\* A circle of three members holding stakes of different sizes.
C37_Witness ==
    /\ Len(circles[1].members) = 3
    /\ \E i, j \in 1 .. 3 :
          members[circles[1].members[i]].trustBond
              < members[circles[1].members[j]].trustBond

\* C38: repayment always remains possible for an outstanding loan: for a
\* disbursed, unrepaid loan, repayLoan by the borrower with a payment equal to
\* totalRepayment succeeds however late it is, whether or not the borrower is
\* frozen and whether or not penalizeDefault has been applied; more than 7 days
\* late it awards no bonus, clears hasActiveLoan, and neither unfreezes the
\* borrower nor restores a penalized score.
C38_If ==
    \A l \in LoanIds :
        Outstanding(l) =>
            ENABLED (/\ repayLoan(loans[l].borrower, l, loans[l].totalRepayment)
                     /\ loans'[l].repaid
                     /\ ~members'[loans[l].borrower].hasActiveLoan)

C38_Step ==
    \A l \in LoanIds :
        (~loans[l].repaid /\ loans'[l].repaid) =>
            LET b == loans[l].borrower
            IN  /\ members'[b].isActive = members[b].isActive
                /\ ~members'[b].hasActiveLoan
                /\ now > loans[l].dueDate + 7 * days =>
                      /\ members'[b].individualScore = members[b].individualScore
                      /\ members'[b].loansCompleted = members[b].loansCompleted + 1
                /\ \A a \in Accounts \ {b} : members'[a] = members[a]

C38_RepaymentPossible == []C38_If /\ [][Changed => C38_Step]_vars

\* A penalized loan repaid past the default grace period by a borrower who is
\* frozen still and keeps the slashed score.
C38_Witness ==
    \E l \in penalized :
        LET b == loans[l].borrower
        IN  /\ loans[l].repaid
            /\ loans[l].repaymentTime > loans[l].dueDate + DEFAULT_GRACE
            /\ ~members[b].isActive
            /\ ~members[b].hasActiveLoan
            /\ members[b].individualScore = 0
            /\ members[b].loansCompleted = 1

\* C39: the breakdown returned by calculateTrustScoreBreakdown always has
\* totalTrustScore in 0..60 with each component within its maximum (wallet age
\* <= 15, repayment history <= 15, selfie <= 10, circle activity <= 10, platform
\* activity <= 10), for all inputs including circle members whose trust scores
\* exceed 60, and its risk tier is low for a total >= 40, medium for 20..39 and
\* high below 20.
C39_Bounded ==
    breakdown.pc = "returned" =>
        LET r == breakdown.result
        IN  /\ r.totalTrustScore \in 0 .. 60
            /\ r.walletAgeScore \in 0 .. 15
            /\ r.repaymentHistoryScore \in 0 .. 15
            /\ r.selfieVerificationScore \in 0 .. 10
            /\ r.circleActivityScore \in 0 .. 10
            /\ r.platformActivityScore \in 0 .. 10
            /\ r.riskLevel = IF r.totalTrustScore >= 40 THEN "low"
                             ELSE IF r.totalTrustScore >= 20 THEN "medium"
                             ELSE "high"

\* What does hold: every other component is within its maximum, the total is
\* the sum of the components and the tier follows the total.
C39_OtherComponents ==
    breakdown.pc = "returned" =>
        LET r == breakdown.result
        IN  /\ r.walletAgeScore \in 0 .. 15
            /\ r.repaymentHistoryScore \in 0 .. 15
            /\ r.selfieVerificationScore \in 0 .. 10
            /\ r.platformActivityScore \in 0 .. 10
            /\ r.circleActivityScore >= 0
            /\ Len(breakdown.data.circleMembers) < 3 => r.circleActivityScore <= 10
            /\ r.totalTrustScore = r.walletAgeScore + r.repaymentHistoryScore
                    + r.selfieVerificationScore + r.circleActivityScore
                    + r.platformActivityScore
            /\ r.riskLevel = IF r.totalTrustScore >= 40 THEN "low"
                             ELSE IF r.totalTrustScore >= 20 THEN "medium"
                             ELSE "high"

\* The highest total the inputs reach.
C39_Total67 == breakdown.pc = "returned" /\ breakdown.result.totalTrustScore = 67

\* C40: verifySelfieWithGemini always terminates with a response value and
\* never throws; on repeated rate-limit (429) replies it retries at most 3
\* times (at most 4 API calls in total, the retry budget strictly decreasing on
\* each retry) and then returns a non-verified manual_review result; every
\* returned result with is_verified = true has face_detected = true.
C40_Safe ==
    selfie.pc # "idle" =>
        /\ selfie.pc \in {"entry", "fetching", "waiting", "returned"}
        /\ selfie.retries \in 0 .. 3
        /\ selfie.calls <= 4
        /\ selfie.budget - selfie.retries <= 3
        /\ selfie.calls \in {selfie.budget - selfie.retries,
                             selfie.budget - selfie.retries + 1}
        /\ selfie.pc = "returned" =>
              /\ "result" \in DOMAIN selfie
              /\ selfie.result.is_verified => selfie.result.face_detected
              /\ selfie.status = 429 =>
                    /\ selfie.retries = 0
                    /\ selfie.calls = selfie.budget + 1
                    /\ ~selfie.result.is_verified
                    /\ selfie.result.verification_recommendation = "manual_review"

C40_Step ==
    selfie.pc # "idle" =>
        /\ selfie'.retries \in {selfie.retries, selfie.retries - 1}
        /\ selfie'.calls \in {selfie.calls, selfie.calls + 1}
        /\ (selfie.pc = "waiting" /\ selfie'.pc = "entry")
              => selfie'.retries = selfie.retries - 1
        /\ selfie'.calls = selfie.calls + 1
              => (selfie.pc = "entry" /\ selfie'.pc = "fetching")
        /\ selfie.pc = "returned" => selfie' = selfie

C40_Verified ==
    /\ selfie.pc = "returned"
    /\ selfie.result.is_verified
    /\ selfie.result.face_detected

=============================================================================
